---- MODULE Spec2Model ----
(***************************************************************************)
(* The message store of the playground (src/src/db/message-store.ts): an   *)
(* in-memory cache over a durable table, a per-id map of pending edit      *)
(* operations and a single-flight reorder flag.                            *)
(*                                                                         *)
(* The store runs on one JavaScript thread.  A store method runs without   *)
(* interruption up to its next `await`.  An await on a durable request is  *)
(* resumed by a later task, when the request completes; the durable table  *)
(* serves requests in the order they were issued.  An await on an edit     *)
(* operation is resumed by a microtask when that operation settles:        *)
(* the awaiting calls run one after the other, in the order they started   *)
(* to wait, before any other task runs.                                    *)
(***************************************************************************)
EXTENDS Integers, Sequences, FiniteSets, TLC

\* ------------------------------------------------------------------ bounds
MaxCalls == 3   \* store calls submitted in one behaviour
MaxNow == 3     \* largest value of the clock Date.now()
MaxIds == 4     \* message ids are 1..MaxIds (uuids, ordered as keys)
MaxListeners == 2   \* listeners are 1..MaxListeners
MaxSubs == 2        \* subscribe calls made in one behaviour
MaxRuns == 2        \* view handlers (handleAddMessage, handleRun) started
MaxFragments == 2   \* deltas the provider streams yield in one behaviour

Ids == 1 .. MaxIds
Listeners == 1 .. MaxListeners
UnknownId == 0                \* an id that no message has
Roles == {"user", "assistant"}
Contents == {"x", "a", "ab"}
NewContents == {"a"}          \* contents of the messages that are added
NoKey == "-"                  \* a key that an object does not have
FileVals == {"f"}
Controllers == {"page", "list"}   \* the useChatGeneration() instances
Fragments == {"a", "b"}           \* the text deltas a stream may yield
Typed == {"", " ", "a"}           \* what the user types into the input box

Msg(id, role, content, files, timestamp) ==
  [id |-> id, role |-> role, content |-> content, files |-> files,
   timestamp |-> timestamp]

\* the update argument of editMessage: a plain string, or an object whose
\* optional keys (files, timestamp) may be missing
StringUpdate(content) ==
  [isString |-> TRUE, role |-> NoKey, content |-> content, files |-> NoKey]
ObjectUpdate(role, content, files) ==
  [isString |-> FALSE, role |-> role, content |-> content, files |-> files]
Updates ==
  {StringUpdate("a"), StringUpdate("ab"), ObjectUpdate("assistant", "x", "f")}

\* the update the views pass: { ...message, content }, a whole message with
\* its id and its timestamp (sortable-message.tsx lines 143-146)
MessageUpdate(message, content) ==
  [isString |-> FALSE, role |-> message.role, content |-> content,
   files |-> message.files, id |-> message.id,
   timestamp |-> message.timestamp]

NoOp == 0
NoUpdate == StringUpdate(NoKey)

VARIABLES
  messages,         \* this.messages, the cache
  table,            \* db.messages, the durable table (a set of records keyed by id)
  editOperations,   \* this.editOperations, entries in insertion order
  isSavingReorder,  \* this.isSavingReorder
  calls,            \* the store calls made so far, in submission order
  requests,         \* calls whose durable request is issued and not yet completed
  waiting,          \* calls awaiting an edit operation, in the order they began
  microtasks,       \* calls to resume now that the operation they awaited settled
  now,              \* Date.now()
  used,             \* ids ever given to a message
  snapshot,         \* the copy of the cache last made by notify()
  listeners,        \* this.listeners, a Set: its members in insertion order
  received,         \* per listener: what its invocations handed to it
  handles,          \* the listener of each subscribe call made so far
  state,            \* per generation controller: isRunning, generatingMessage
  shouldStopRef,    \* per generation controller: shouldStopRef.current
  contentRef,       \* per generation controller: contentRef.current
  runs,             \* the view handlers (handleAddMessage, handleRun) started so far
  newMessage,       \* the content of the page's newMessage
  settings,         \* settings.apiKey is set
  uiMode,           \* 'beginner' or 'expert'
  rendered          \* allMessages, the list MessageList rendered last

\* the state of the generation controllers and of the page
genVars == <<state, shouldStopRef, contentRef, runs, newMessage, settings,
             uiMode, rendered>>

vars == <<messages, table, editOperations, isSavingReorder, calls, requests,
          waiting, microtasks, now, used, snapshot, listeners, received,
                 handles, genVars>>

\* the state of the store and of its listeners
storeVars == <<messages, table, editOperations, isSavingReorder, calls,
               requests, waiting, microtasks, now, used, snapshot, listeners,
               received, handles>>

\* ------------------------------------------------------- array helpers
\* Array.prototype.findIndex(msg => msg.id === id), 0-based, -1 when absent
FindIndex(array, id) ==
  IF \E i \in 1 .. Len(array) : array[i].id = id
  THEN (CHOOSE i \in 1 .. Len(array) :
          /\ array[i].id = id
          /\ \A j \in 1 .. i - 1 : array[j].id # id) - 1
  ELSE -1

\* Array.prototype.slice(from, to) with 0 <= from, 0-based, to exclusive
Slice(array, from, to) ==
  [i \in 1 .. (IF to > from THEN to - from ELSE 0) |-> array[from + i]]

\* the start index Array.prototype.splice computes from its first argument
SpliceStart(len, start) ==
  IF start < 0 THEN (IF len + start < 0 THEN 0 ELSE len + start)
  ELSE (IF start > len THEN len ELSE start)

\* an exchange of the two elements instead of a move
ArraySwap(array, from, to) ==
  LET len == Len(array)
      f == SpliceStart(len, from) + 1
      t == SpliceStart(len - 1, IF to < 0 THEN len + to ELSE to) + 1
  IN [i \in 1 .. len |->
        IF i = f THEN array[t] ELSE IF i = t THEN array[f] ELSE array[i]]

\* arrayMove(array, from, to) of @dnd-kit/sortable:
\*   newArray = array.slice()
\*   newArray.splice(to < 0 ? newArray.length + to : to, 0,
\*                   newArray.splice(from, 1)[0])
\* for a non-empty array (an element is always taken out).  The arguments
\* are evaluated left to right: the insertion index is computed from the
\* length before the element is taken out.
ArrayMove(array, from, to) ==
  LET len == Len(array)
      f == SpliceStart(len, from)
      taken == array[f + 1]
      rest == Slice(array, 0, f) \o Slice(array, f + 1, len)
      t == SpliceStart(len - 1, IF to < 0 THEN len + to ELSE to)
  IN Slice(rest, 0, t) \o <<taken>> \o Slice(rest, t, len - 1)

Range(seq) == {seq[i] : i \in 1 .. Len(seq)}
IdsOf(array) == [i \in 1 .. Len(array) |-> array[i].id]

\* ------------------------------------------------------ durable table
TableIds(t) == {r.id : r \in t}
TableGet(t, id) == {r \in t : r.id = id}
TablePut(t, m) == {r \in t : r.id # m.id} \cup {m}
TableDelete(t, ids) == {r \in t : r.id \notin ids}

\* primary-key order alone
BeforeByKey(a, b) == a.id < b.id

Before(a, b) ==
  \/ a.timestamp < b.timestamp
  \/ (a.timestamp = b.timestamp /\ a.id < b.id)

\* db.messages.orderBy('timestamp').toArray(): ascending timestamp, equal
\* timestamps in primary-key order
RECURSIVE OrderByTimestamp(_)
OrderByTimestamp(t) ==
  IF t = {} THEN <<>>
  ELSE LET first == CHOOSE r \in t : \A o \in t \ {r} : Before(r, o)
       IN <<first>> \o OrderByTimestamp(t \ {first})

\* -------------------------------------------------- editOperations map
MapGet(map, id) ==
  IF \E i \in 1 .. Len(map) : map[i].id = id
  THEN (CHOOSE e \in Range(map) : e.id = id).op
  ELSE NoOp

MapSet(map, id, op) ==
  IF \E i \in 1 .. Len(map) : map[i].id = id
  THEN [i \in 1 .. Len(map) |->
          IF map[i].id = id THEN [id |-> id, op |-> op] ELSE map[i]]
  ELSE Append(map, [id |-> id, op |-> op])

MapDelete(map, id) == SelectSeq(map, LAMBDA e : e.id # id)

\* position (1-based) of id's entry, 0 when it has none
MapPosition(map, id) ==
  IF \E i \in 1 .. Len(map) : map[i].id = id
  THEN CHOOSE i \in 1 .. Len(map) : map[i].id = id
  ELSE 0

\* ---------------------------------------------------------------- calls
\* One record per call of a store method.  pc: "await" (awaiting the edit
\* operation `wait`), "db" (awaiting the durable request `req`), "done";
\* wait keeps the operation the call awaited last.
\* local holds the method's local array (newMessages / updatedMessages of
\* reorderMessages, updatedMessage of editMessage, the ids of
\* deleteMessagesFrom, the result of getAllMessages); iter is the number of
\* map entries the method's iterator over editOperations.values() has passed.
\* Three fields record history and are read by no operation: notes counts
\* the notify() calls of the call, pending holds the earlier calls that were
\* still running when this one was made, before is the cache the call found
\* (reorderMessages when called, deleteMessagesFrom when it looks up its index).
NewCall(kind, id, over, update) ==
  [kind |-> kind, id |-> id, over |-> over, update |-> update,
   pc |-> "done", req |-> NoKey, wait |-> NoOp, iter |-> 0,
   local |-> <<>>, index |-> -1, notes |-> 0, dropped |-> FALSE,
   error |-> FALSE,
   pending |-> {k \in 1 .. Len(calls) : calls[k].pc # "done"},
   before |-> <<>>]

PutCall(c, rec) ==
  IF c > Len(calls) THEN Append(calls, rec) ELSE [calls EXCEPT ![c] = rec]

\* no microtask is left: the next task (a caller, a durable completion) may run
Idle == microtasks = <<>>
CanCall == Idle /\ Len(calls) < MaxCalls
Running == microtasks # <<>>
\* clear() may also come after the last of the other calls
CanClear == Idle /\ Len(calls) <= MaxCalls

\* `await operation`: suspend call c until operation op settles
AwaitOperation(c, rec, op) ==
  /\ calls' = PutCall(c, [rec EXCEPT !.pc = "await", !.wait = op])
  /\ waiting' = Append(waiting, c)

\* `await db.messages.<req>(...)`: issue a durable request and suspend
AwaitRequest(c, rec, req) ==
  /\ calls' = PutCall(c, [rec EXCEPT !.pc = "db", !.req = req])
  /\ requests' = Append(requests, c)

\* the call returns
Return(c, rec) ==
  calls' = PutCall(c, [rec EXCEPT !.pc = "done", !.req = NoKey])

\* notify(): hand every listener a copy of the cache as it will be
Notify(rec) == [rec EXCEPT !.notes = @ + 1]

\* ---------------------------------------------------------------- listeners
\* what a listener holds before its first invocation
\* (off: a handle of the listener was called after its last subscribe)
NoReceipt ==
  [count |-> 0, last |-> <<>>, live |-> FALSE, rank |-> 0, off |-> FALSE]

Position(seq, x) == CHOOSE i \in 1 .. Len(seq) : seq[i] = x

\* a notification that reaches only the first listener of the set
DeliverToFirst(copy) ==
  [l \in Listeners |->
     IF listeners # <<>> /\ l = listeners[1]
     THEN [received[l] EXCEPT !.count = @ + 1, !.last = copy,
                              !.live = FALSE, !.rank = 1]
     ELSE [received[l] EXCEPT !.live = FALSE]]

\* this.listeners.forEach(listener => listener(messagesCopy)), lines 51-52,
\* after the cache was assigned a new array: every member of the set is
\* invoked with the copy, in insertion order (rank is its turn), and no
\* listener holds the cache's own array any more
Deliver(copy) ==
  [l \in Listeners |->
     IF l \in Range(listeners)
     THEN [received[l] EXCEPT !.count = @ + 1, !.last = copy,
                              !.live = FALSE,
                              !.rank = Position(listeners, l)]
     ELSE [received[l] EXCEPT !.live = FALSE]]

\* ----------------------------------------------------------- editMessage
\* { ...currentMessage, content: update } or { ...currentMessage, ...update }
Merge(currentMessage, update) ==
  IF update.isString
  THEN [currentMessage EXCEPT !.content = update.content]
  ELSE LET merged ==
             [currentMessage EXCEPT
                !.role = IF update.role = NoKey THEN @ ELSE update.role,
                !.content = IF update.content = NoKey THEN @
                            ELSE update.content,
                !.files = IF update.files = NoKey THEN @ ELSE update.files]
       IN IF "timestamp" \in DOMAIN update
          THEN [merged EXCEPT !.id = update.id,
                              !.timestamp = update.timestamp]
          ELSE merged

\* lines 103-105 and 125: the operation starts (it runs up to its durable
\* get) and is recorded as the pending operation of the id
StartOperation(c, rec) ==
  /\ AwaitRequest(c, rec, "get")
  /\ editOperations' = MapSet(editOperations, rec.id, c)

\* an operation that settles and leaves its entry in the map
FinishKeepsEntry(c, rec) ==
  /\ UNCHANGED editOperations
  /\ calls' = [calls EXCEPT ![c] = [rec EXCEPT !.pc = "done", !.req = NoKey]]
  /\ microtasks' = SelectSeq(waiting, LAMBDA w : calls[w].wait = c)
  /\ waiting' = SelectSeq(waiting, LAMBDA w : calls[w].wait # c)

\* lines 120-122 and the settling of the operation's promise: the entry of
\* the id is deleted, whichever operation it holds, and the calls awaiting
\* this operation are queued to resume in the order they began to wait.
\* Deleting an entry moves the later entries down under every iterator.
FinishOperation(c, rec) ==
  LET pos == MapPosition(editOperations, rec.id)
      done == [rec EXCEPT !.pc = "done", !.req = NoKey]
  IN /\ editOperations' = MapDelete(editOperations, rec.id)
     /\ calls' = [k \in 1 .. Len(calls) |->
                    IF k = c THEN done
                    ELSE IF pos > 0 /\ calls[k].iter >= pos
                         THEN [calls[k] EXCEPT !.iter = @ - 1]
                         ELSE calls[k]]
     /\ microtasks' = SelectSeq(waiting, LAMBDA w : calls[w].wait = c)
     /\ waiting' = SelectSeq(waiting, LAMBDA w : calls[w].wait # c)

\* editMessage that starts its operation without awaiting the pending one
EditMessageNoWait(id, update) ==
  /\ CanCall
  /\ StartOperation(Len(calls) + 1, NewCall("edit", id, 0, update))
  /\ UNCHANGED <<messages, table, isSavingReorder, waiting, microtasks, now,
                 used, snapshot, listeners, received,
                 handles, genVars>>

\* editMessage(id, update), called: lines 98-105, 125-126
EditMessage(id, update) ==
  /\ CanCall
  /\ LET c == Len(calls) + 1
         rec == NewCall("edit", id, 0, update)
         currentOperation == MapGet(editOperations, id)
     IN IF currentOperation # NoOp
        THEN /\ AwaitOperation(c, rec, currentOperation)
             /\ UNCHANGED <<editOperations, requests>>
        ELSE /\ StartOperation(c, rec)
             /\ UNCHANGED waiting
  /\ UNCHANGED <<messages, table, isSavingReorder, microtasks, now, used,
                 snapshot, listeners, received,
                 handles, genVars>>

\* editMessage resumes after `await currentOperation` (line 100): it starts
\* its operation without looking at the map again
EditResume ==
  /\ Running
  /\ LET c == Head(microtasks)
     IN /\ calls[c].kind = "edit"
        /\ StartOperation(c, calls[c])
  /\ microtasks' = Tail(microtasks)
  /\ UNCHANGED <<messages, table, isSavingReorder, waiting, now, used, snapshot, listeners, received,
                 handles, genVars>>

\* the durable get of an edit operation completes: lines 105-115, and
\* 120-122 when the message is missing from the table or from the cache
EditGetComplete ==
  /\ Idle /\ requests # <<>>
  /\ LET c == Head(requests)
         rec == calls[c]
         message == TableGet(table, rec.id)
         found == FindIndex(messages, rec.id)
     IN /\ rec.req = "get"
        /\ IF message = {} \/ found = -1
           THEN /\ FinishOperation(c, rec)
                /\ requests' = Tail(requests)
           ELSE LET currentMessage == messages[found + 1]
                    updatedMessage == Merge(currentMessage, rec.update)
                IN /\ calls' = [calls EXCEPT ![c] =
                                  [rec EXCEPT !.req = "put",
                                              !.local = <<updatedMessage>>]]
                   /\ requests' = Append(Tail(requests), c)
                   /\ UNCHANGED <<editOperations, microtasks, waiting>>
  /\ UNCHANGED <<messages, table, isSavingReorder, now, used, snapshot, listeners, received,
                 handles, genVars>>

\* the durable put of an edit operation completes: lines 115-122
EditPutComplete ==
  /\ Idle /\ requests # <<>>
  /\ LET c == Head(requests)
         rec == calls[c]
         updatedMessage == rec.local[1]
     IN /\ rec.req = "put"
        /\ table' = TablePut(table, updatedMessage)
        /\ messages' = [i \in 1 .. Len(messages) |->
                          IF messages[i].id = rec.id THEN updatedMessage
                          ELSE messages[i]]
        /\ snapshot' = messages'
        /\ received' = Deliver(messages')
        /\ UNCHANGED <<listeners, handles, genVars>>
        /\ FinishOperation(c, Notify(rec))
  /\ requests' = Tail(requests)
  /\ UNCHANGED <<isSavingReorder, now, used>>

\* ------------------------------------------------------ SortableMessage
\* the fields the memo comparator of SortableMessage compares
\* (sortable-message.tsx lines 484-492): a message that differs from the
\* one a component holds in its timestamp alone does not re-render it
SameProps(prev, next) ==
  /\ prev.id = next.id /\ prev.content = next.content
  /\ prev.role = next.role /\ prev.files = next.files

\* the message props a SortableMessage of id may hold: the message of the
\* last notification, or the one it held when a reorder was called, if the
\* notifications since then changed none of the compared fields
ViewOf(id) ==
  {m \in Range(snapshot) : m.id = id}
    \cup {m \in UNION {Range(calls[r].before) :
                         r \in {k \in 1 .. Len(calls) :
                                  calls[k].kind = "reorder"}} :
            /\ m.id = id
            /\ \E next \in Range(snapshot) : SameProps(m, next)}

\* handleMessageEdit(newContent), sortable-message.tsx lines 141-149
HandleMessageEdit(id, newContent) ==
  \E message \in ViewOf(id) :
    EditMessage(id, MessageUpdate(message, newContent))

\* ------------------------------------------------- generation controller
\* generatingMessage: null, or the placeholder { id, role: 'assistant', content }
NoMessage == [id |-> UnknownId, role |-> NoKey, content |-> NoKey]
Placeholder(id, content) == [id |-> id, role |-> "assistant", content |-> content]

\* String.prototype.trim() on the contents that occur here: only the
\* whitespace-only content loses anything
Trim(content) == IF content = " " THEN "" ELSE content

\* One record per view handler started.  kind: "add" (handleAddMessage
\* from the add button) or "run" (handleRun); key: the view action that
\* started it; pc: "rejected" (returned at a validation), "add" (awaiting
\* handleAddMessage), "chat" (generate awaits chat()), "stream" (generate
\* awaits the next delta), "commit" (awaiting the addMessage of the
\* result), "done".  call is the store call awaited, id the messageId
\* generate draws, msg the id of the message handleAddMessage adds.
\* The other fields record history: count and sent are the number and the
\* concatenation of the deltas the stream yielded to this generate,
\* atStop is sent at the first stop() made while it was running, found is
\* the stop flag as generate found it when called, outcome is how generate
\* resolved ("completed", "stopped", "failed") with content the content
\* returned, toasts counts the toast.error calls of the handler.
NewRun(kind, key, k) ==
  [kind |-> kind, key |-> key, ctrl |-> k, pc |-> "done", call |-> 0,
   id |-> UnknownId, msg |-> UnknownId, count |-> 0, sent |-> "",
   atStop |-> NoKey, found |-> FALSE, outcome |-> NoKey, content |-> NoKey,
   toasts |-> 0]

\* the runs whose generate has not resolved
Generating(r) == runs[r].pc \in {"chat", "stream"}

\* ids that no message and no handler has drawn; uuidv4() draws the least
\* of them (the controller and the page never compare ids by order)
Fresh ==
  Ids \ (used \cup {runs[r].id : r \in 1 .. Len(runs)}
              \cup {runs[r].msg : r \in 1 .. Len(runs)})
Uuid(n) ==
  CHOOSE id \in Fresh : Cardinality({o \in Fresh : o < id}) = n - 1

\* a generate that leaves the stop flag as it finds it
GenerateKeepsFlag(k, messageId) ==
  /\ UNCHANGED shouldStopRef
  /\ contentRef' = [contentRef EXCEPT ![k] = ""]
  /\ state' = [state EXCEPT ![k] =
                 [isRunning |-> TRUE,
                  generatingMessage |-> Placeholder(messageId, "")]]

\* generate(), called: use-chat-generation.ts lines 94-110
Generate(k, messageId) ==
  /\ shouldStopRef' = [shouldStopRef EXCEPT ![k] = FALSE]
  /\ contentRef' = [contentRef EXCEPT ![k] = ""]
  /\ state' = [state EXCEPT ![k] =
                 [isRunning |-> TRUE,
                  generatingMessage |-> Placeholder(messageId, "")]]

\* the finally block of generate, lines 177-185
Finally(k) ==
  /\ shouldStopRef' = [shouldStopRef EXCEPT ![k] = FALSE]
  /\ contentRef' = [contentRef EXCEPT ![k] = ""]
  /\ state' = [state EXCEPT ![k] =
                 [isRunning |-> FALSE, generatingMessage |-> NoMessage]]

\* the handlers awaiting store call c
Awaiting(c) ==
  {r \in 1 .. Len(runs) : runs[r].call = c /\ runs[r].pc \in {"add", "commit"}}

\* Store call c returned: the handler awaiting it, if any, resumes in the
\* same task.  A rejection ends the handler (page.tsx has no catch).
\* handleAddMessage resumes at lines 161-166 and clears the input box;
\* handleRun then goes on to generate (lines 251-254); after the
\* addMessage of the result (lines 257-261) handleRun returns.
Continue(c, failed) ==
  IF Awaiting(c) = {}
  THEN UNCHANGED genVars
  ELSE LET r == CHOOSE x \in Awaiting(c) : TRUE
           rec == runs[r]
       IN /\ UNCHANGED <<settings, uiMode, rendered>>
          /\ IF failed \/ rec.pc = "commit"
             THEN /\ runs' = [runs EXCEPT ![r].pc = "done"]
                  /\ UNCHANGED <<state, shouldStopRef, contentRef, newMessage>>
             ELSE /\ newMessage' = ""
                  /\ IF rec.kind = "add"
                     THEN /\ runs' = [runs EXCEPT ![r].pc = "done"]
                          /\ UNCHANGED <<state, shouldStopRef, contentRef>>
                     ELSE /\ runs' = [runs EXCEPT
                                       ![r].pc = "chat",
                                       ![r].found = shouldStopRef[rec.ctrl]]
                          /\ Generate(rec.ctrl, rec.id)

\* ------------------------------------------------------------ addMessage
\* an addMessage that persists without notifying
AddMessageSilent(id, content) ==
  /\ CanCall
  /\ id \notin used
  /\ LET c == Len(calls) + 1
         message == Msg(id, "user", content, NoKey, now)
         rec == [NewCall("add", id, 0, NoUpdate) EXCEPT !.local = <<message>>]
     IN /\ messages' = Append(messages, message)
        /\ AwaitRequest(c, rec, "add")
  /\ used' = used \cup {id}
  /\ UNCHANGED <<table, editOperations, isSavingReorder, waiting, microtasks,
                 now, snapshot, listeners, received, handles, genVars>>

\* addMessage(message) with a new id (callers pass uuidv4()): lines 71-83
AddToStore(id, role, content) ==
  /\ CanCall
  /\ id \notin used
  /\ LET c == Len(calls) + 1
         timestamp == now
         message == Msg(id, role, content, NoKey, timestamp)
         rec == [NewCall("add", id, 0, NoUpdate) EXCEPT !.local = <<message>>]
     IN /\ messages' = Append(messages, message)
        /\ snapshot' = messages'
        /\ received' = Deliver(messages')
        /\ UNCHANGED <<listeners, handles>>
        /\ AwaitRequest(c, Notify(rec), "add")
  /\ used' = used \cup {id}
  /\ UNCHANGED <<table, editOperations, isSavingReorder, waiting, microtasks, now>>

\* addMessage called by a caller that is not a handler of the page
AddMessage(id, content) ==
  /\ AddToStore(id, "user", content)
  /\ UNCHANGED genVars

\* the durable add completes: lines 83-87
AddComplete ==
  /\ Idle /\ requests # <<>>
  /\ LET c == Head(requests)
         rec == calls[c]
     IN /\ rec.req = "add"
        /\ table' = TablePut(table, rec.local[1])
        /\ Return(c, rec)
        /\ Continue(c, FALSE)
  /\ requests' = Tail(requests)
  /\ UNCHANGED <<messages, editOperations, isSavingReorder, waiting, microtasks,
                 now, used, snapshot, listeners, received,
                 handles>>

\* --------------------------------------------------------- deleteMessage
\* deleteMessage(id), called: lines 141-146
DeleteMessage(id) ==
  /\ CanCall
  /\ LET c == Len(calls) + 1
         rec == NewCall("delete", id, 0, NoUpdate)
         currentOperation == MapGet(editOperations, id)
     IN IF currentOperation # NoOp
        THEN /\ AwaitOperation(c, rec, currentOperation)
             /\ UNCHANGED requests
        ELSE /\ AwaitRequest(c, rec, "delete")
             /\ UNCHANGED waiting
  /\ UNCHANGED <<messages, table, editOperations, isSavingReorder, microtasks,
                 now, used, snapshot, listeners, received,
                 handles, genVars>>

\* deleteMessage resumes after `await currentOperation` (line 143) and
\* issues its durable delete (line 146)
DeleteResume ==
  /\ Running
  /\ LET c == Head(microtasks)
     IN /\ calls[c].kind = "delete"
        /\ AwaitRequest(c, calls[c], "delete")
  /\ microtasks' = Tail(microtasks)
  /\ UNCHANGED <<messages, table, editOperations, isSavingReorder, waiting, now,
                 used, snapshot, listeners, received,
                 handles, genVars>>

\* the durable delete completes: lines 146-148
DeleteComplete ==
  /\ Idle /\ requests # <<>>
  /\ LET c == Head(requests)
         rec == calls[c]
     IN /\ rec.req = "delete"
        /\ table' = TableDelete(table, {rec.id})
        /\ messages' = SelectSeq(messages, LAMBDA msg : msg.id # rec.id)
        /\ snapshot' = messages'
        /\ received' = Deliver(messages')
        /\ UNCHANGED <<listeners, handles, genVars>>
        /\ Return(c, Notify(rec))
  /\ requests' = Tail(requests)
  /\ UNCHANGED <<editOperations, isSavingReorder, waiting, microtasks, now, used>>

\* ------------------------------------- awaiting the pending operations
\* for (const operation of this.editOperations.values()) await operation:
\* the operation the live iterator yields next, NoOp when it is exhausted
NextOperation(rec) ==
  IF rec.iter < Len(editOperations) THEN editOperations[rec.iter + 1].op
  ELSE NoOp

AwaitNextOperation(c, rec) ==
  AwaitOperation(c, [rec EXCEPT !.iter = @ + 1], NextOperation(rec))

\* ------------------------------------------------------- reorderMessages
\* lines 187-192: the timestamps are reassigned on the local newMessages
\* and every reassigned message is put
ReorderPersist(c, rec) ==
  LET newMessages == rec.local
      updatedMessages ==
        [i \in 1 .. Len(newMessages) |->
           [newMessages[i] EXCEPT !.timestamp = now + (i - 1)]]
  IN AwaitRequest(c, [rec EXCEPT !.local = updatedMessages], "bulkPut")

\* lines 171-192: the flag is set, the cache takes the new order, the
\* listeners are notified, the pending operations are awaited and, when
\* none is left, the reassigned messages are put
ReorderStart(activeId, overId) ==
  /\ LET c == Len(calls) + 1
         newMessages == ArrayMove(messages, FindIndex(messages, activeId),
                                  FindIndex(messages, overId))
         rec == Notify([NewCall("reorder", activeId, overId, NoUpdate)
                          EXCEPT !.local = newMessages, !.before = messages])
     IN /\ messages' = newMessages
        /\ snapshot' = messages'
        /\ received' = Deliver(messages')
        /\ UNCHANGED <<listeners, handles, genVars>>
        /\ IF NextOperation(rec) # NoOp
           THEN /\ AwaitNextOperation(c, rec)
                /\ UNCHANGED requests
           ELSE /\ ReorderPersist(c, rec)
                /\ UNCHANGED waiting
  /\ isSavingReorder' = TRUE
  /\ UNCHANGED <<table, editOperations, microtasks, now, used>>

\* reorderMessages(activeId, overId), called while no reorder is being
\* saved: lines 164-192.  The list a drag happens in is not empty.
ReorderMessages(activeId, overId) ==
  /\ CanCall
  /\ ~isSavingReorder
  /\ Len(messages) > 0
  /\ ReorderStart(activeId, overId)

\* a reorder that goes ahead although another one is being saved
ReorderAnyway(activeId, overId) ==
  /\ CanCall
  /\ isSavingReorder
  /\ Len(messages) > 0
  /\ ReorderStart(activeId, overId)

\* reorderMessages(activeId, overId) as above, which may also come after
\* the last of the other calls
ReorderLast(activeId, overId) ==
  /\ CanClear
  /\ ~isSavingReorder
  /\ Len(messages) > 0
  /\ ReorderStart(activeId, overId)

\* reorderMessages called while a reorder is being saved: line 164
ReorderDropped(activeId, overId) ==
  /\ CanCall
  /\ isSavingReorder
  /\ calls' = Append(calls, [NewCall("reorder", activeId, overId, NoUpdate)
                               EXCEPT !.dropped = TRUE])
  /\ UNCHANGED <<messages, table, editOperations, isSavingReorder, requests,
                 waiting, microtasks, now, used, snapshot, listeners, received,
                 handles, genVars>>

\* reorderMessages resumes after `await operation` (line 184)
ReorderResume ==
  /\ Running
  /\ LET c == Head(microtasks)
         rec == calls[c]
     IN /\ rec.kind = "reorder"
        /\ IF NextOperation(rec) # NoOp
           THEN /\ AwaitNextOperation(c, rec)
                /\ UNCHANGED requests
           ELSE /\ ReorderPersist(c, rec)
                /\ UNCHANGED waiting
  /\ microtasks' = Tail(microtasks)
  /\ UNCHANGED <<messages, table, editOperations, isSavingReorder, now, used,
                 snapshot, listeners, received,
                 handles, genVars>>

\* a reorder that completes and leaves the single-flight flag set
ReorderCompleteKeepsFlag ==
  /\ Idle /\ requests # <<>>
  /\ LET c == Head(requests)
         rec == calls[c]
         updatedMessages == rec.local
     IN /\ rec.req = "bulkPut"
        /\ table' = {r \in table : r.id \notin Range(IdsOf(updatedMessages))}
                      \cup Range(updatedMessages)
        /\ messages' = updatedMessages
        /\ snapshot' = messages'
        /\ received' = Deliver(messages')
        /\ UNCHANGED <<listeners, handles, genVars>>
        /\ Return(c, Notify(rec))
  /\ requests' = Tail(requests)
  /\ UNCHANGED <<isSavingReorder, editOperations, waiting, microtasks, now,
                 used>>

\* every put of the reorder has completed: lines 192-195 and 207-209
ReorderComplete ==
  /\ Idle /\ requests # <<>>
  /\ LET c == Head(requests)
         rec == calls[c]
         updatedMessages == rec.local
     IN /\ rec.req = "bulkPut"
        /\ table' = {r \in table : r.id \notin Range(IdsOf(updatedMessages))}
                      \cup Range(updatedMessages)
        /\ messages' = updatedMessages
        /\ snapshot' = messages'
        /\ received' = Deliver(messages')
        /\ UNCHANGED <<listeners, handles, genVars>>
        /\ Return(c, Notify(rec))
  /\ isSavingReorder' = FALSE
  /\ requests' = Tail(requests)
  /\ UNCHANGED <<editOperations, waiting, microtasks, now, used>>

\* ---------------------------------------------------- deleteMessagesFrom
\* lines 222-226: the index is looked up once the pending operations have
\* been awaited, and the ids from it on are bulk-deleted
DeleteFromLocate(c, rec) ==
  LET index == FindIndex(messages, rec.id)
      messagesToDelete == IdsOf(Slice(messages, index, Len(messages)))
  IN IF index = -1
     THEN Return(c, rec) /\ UNCHANGED requests
     ELSE AwaitRequest(c, [rec EXCEPT !.index = index, !.before = messages,
                                      !.local = messagesToDelete], "bulkDelete")

\* deleteMessagesFrom(id), called: lines 218-226
DeleteMessagesFrom(id) ==
  /\ CanCall
  /\ LET c == Len(calls) + 1
         rec == NewCall("deleteFrom", id, 0, NoUpdate)
     IN IF NextOperation(rec) # NoOp
        THEN /\ AwaitNextOperation(c, rec)
             /\ UNCHANGED requests
        ELSE /\ DeleteFromLocate(c, rec)
             /\ UNCHANGED waiting
  /\ UNCHANGED <<messages, table, editOperations, isSavingReorder, microtasks,
                 now, used, snapshot, listeners, received,
                 handles, genVars>>

\* deleteMessagesFrom resumes after `await operation` (line 219)
DeleteFromResume ==
  /\ Running
  /\ LET c == Head(microtasks)
         rec == calls[c]
     IN /\ rec.kind = "deleteFrom"
        /\ IF NextOperation(rec) # NoOp
           THEN /\ AwaitNextOperation(c, rec)
                /\ UNCHANGED requests
           ELSE /\ DeleteFromLocate(c, rec)
                /\ UNCHANGED waiting
  /\ microtasks' = Tail(microtasks)
  /\ UNCHANGED <<messages, table, editOperations, isSavingReorder, now, used,
                 snapshot, listeners, received,
                 handles, genVars>>

\* the bulk delete completes: lines 226-229
DeleteFromComplete ==
  /\ Idle /\ requests # <<>>
  /\ LET c == Head(requests)
         rec == calls[c]
     IN /\ rec.req = "bulkDelete"
        /\ table' = TableDelete(table, Range(rec.local))
        /\ messages' = Slice(messages, 0,
                             IF rec.index > Len(messages) THEN Len(messages)
                             ELSE rec.index)
        /\ snapshot' = messages'
        /\ received' = Deliver(messages')
        /\ UNCHANGED <<listeners, handles, genVars>>
        /\ Return(c, Notify(rec))
  /\ requests' = Tail(requests)
  /\ UNCHANGED <<editOperations, isSavingReorder, waiting, microtasks, now, used>>

\* ----------------------------------------------------------------- clear
\* clear(), called: lines 239-243
Clear ==
  /\ CanClear
  /\ LET c == Len(calls) + 1
         rec == NewCall("clear", 0, 0, NoUpdate)
     IN IF NextOperation(rec) # NoOp
        THEN /\ AwaitNextOperation(c, rec)
             /\ UNCHANGED requests
        ELSE /\ AwaitRequest(c, rec, "clear")
             /\ UNCHANGED waiting
  /\ UNCHANGED <<messages, table, editOperations, isSavingReorder, microtasks,
                 now, used, snapshot, listeners, received,
                 handles, genVars>>

\* clear resumes after `await operation` (line 240)
ClearResume ==
  /\ Running
  /\ LET c == Head(microtasks)
         rec == calls[c]
     IN /\ rec.kind = "clear"
        /\ IF NextOperation(rec) # NoOp
           THEN /\ AwaitNextOperation(c, rec)
                /\ UNCHANGED requests
           ELSE /\ AwaitRequest(c, rec, "clear")
                /\ UNCHANGED waiting
  /\ microtasks' = Tail(microtasks)
  /\ UNCHANGED <<messages, table, editOperations, isSavingReorder, now, used,
                 snapshot, listeners, received,
                 handles, genVars>>

\* the durable clear completes: lines 243-247
ClearComplete ==
  /\ Idle /\ requests # <<>>
  /\ LET c == Head(requests)
         rec == calls[c]
     IN /\ rec.req = "clear"
        /\ table' = {}
        /\ messages' = <<>>
        /\ snapshot' = messages'
        /\ received' = Deliver(messages')
        /\ UNCHANGED <<listeners, handles, genVars>>
        /\ Return(c, Notify(rec))
  /\ requests' = Tail(requests)
  /\ UNCHANGED <<editOperations, isSavingReorder, waiting, microtasks, now, used>>

\* ------------------------------------------------ init, getAllMessages
\* init(), called: line 60
InitStore ==
  /\ CanCall
  /\ AwaitRequest(Len(calls) + 1, NewCall("init", 0, 0, NoUpdate), "toArray")
  /\ UNCHANGED <<messages, table, editOperations, isSavingReorder, waiting,
                 microtasks, now, used, snapshot, listeners, received,
                 handles, genVars>>

\* getAllMessages(), called: lines 258-262; with a populated cache it
\* returns a copy of the cache at once
GetAllMessages ==
  /\ CanCall
  /\ LET c == Len(calls) + 1
         rec == NewCall("getAll", 0, 0, NoUpdate)
     IN IF Len(messages) > 0
        THEN /\ Return(c, [rec EXCEPT !.local = messages])
             /\ UNCHANGED requests
        ELSE AwaitRequest(c, rec, "toArray")
  /\ UNCHANGED <<messages, table, editOperations, isSavingReorder, waiting,
                 microtasks, now, used, snapshot, listeners, received,
                 handles, genVars>>

\* the ordered read completes: lines 60-62 for init, 262-263 for getAllMessages
ToArrayComplete ==
  /\ Idle /\ requests # <<>>
  /\ LET c == Head(requests)
         rec == calls[c]
         result == OrderByTimestamp(table)
     IN /\ rec.req = "toArray"
        /\ IF rec.kind = "init"
           THEN /\ messages' = result
                /\ snapshot' = messages'
                /\ received' = Deliver(messages')
                /\ UNCHANGED <<listeners, handles, genVars>>
                /\ Return(c, Notify(rec))
           ELSE /\ Return(c, [rec EXCEPT !.local = result])
                /\ UNCHANGED <<messages, snapshot, listeners, received,
                 handles, genVars>>
  /\ requests' = Tail(requests)
  /\ UNCHANGED <<table, editOperations, isSavingReorder, waiting, microtasks,
                 now, used>>

\* ------------------------------------------------- subscribe, listeners
\* subscribe(listener), lines 37-43: the listener joins the set (a member
\* keeps its place) and is invoked with this.messages, the cache's own array
Subscribe(l) ==
  /\ Idle
  /\ Len(handles) < MaxSubs
  /\ listeners' = IF l \in Range(listeners) THEN listeners
                  ELSE Append(listeners, l)
  /\ received' = [received EXCEPT ![l] =
                    [count |-> @.count + 1, last |-> messages, live |-> TRUE,
                     rank |-> 1, off |-> FALSE]]
  /\ handles' = Append(handles, l)
  /\ UNCHANGED <<messages, table, editOperations, isSavingReorder, calls,
                 requests, waiting, microtasks, now, used, snapshot, genVars>>

\* an unsubscribe handle that leaves the set as it is
UnsubscribeKeeps(l) ==
  /\ Idle
  /\ l \in Range(handles) /\ ~received[l].off
  /\ received' = [received EXCEPT ![l].off = TRUE]
  /\ UNCHANGED <<messages, table, editOperations, isSavingReorder, calls,
                 requests, waiting, microtasks, now, used, snapshot,
                 listeners, handles, genVars>>

\* a handle returned by subscribe(l) is called, lines 40-42; a second
\* call without a subscribe(l) in between finds l gone and changes nothing
Unsubscribe(l) ==
  /\ Idle
  /\ l \in Range(handles) /\ ~received[l].off
  /\ listeners' = SelectSeq(listeners, LAMBDA x : x # l)
  /\ received' = [received EXCEPT ![l].off = TRUE]
  /\ UNCHANGED <<messages, table, editOperations, isSavingReorder, calls,
                 requests, waiting, microtasks, now, used, snapshot, handles, genVars>>

\* listener l removes the last element of the array it was handed
\* (received.pop()).  The array handed by subscribe is the cache's own
\* array until the store assigns a new one (live): removing from it removes
\* from the cache and from every other holder of that array.  A copy made
\* by notify() is the listener's own.
ListenerMutates(l) ==
  /\ Idle
  /\ received[l].count > 0
  /\ Len(received[l].last) > 0
  /\ LET shorter == Slice(received[l].last, 0, Len(received[l].last) - 1)
     IN IF received[l].live
        THEN /\ messages' = shorter
             /\ received' = [k \in Listeners |->
                               IF received[k].live
                               THEN [received[k] EXCEPT !.last = shorter]
                               ELSE received[k]]
        ELSE /\ received' = [received EXCEPT ![l].last = shorter]
             /\ UNCHANGED messages
  /\ UNCHANGED <<table, editOperations, isSavingReorder, calls, requests,
                 waiting, microtasks, now, used, snapshot, listeners, handles, genVars>>

\* ------------------------------------------------- durable write failures
\* an addMessage whose failed write takes the message out again
AddFailsRollback ==
  /\ Idle /\ requests # <<>>
  /\ LET c == Head(requests)
         rec == calls[c]
     IN /\ rec.req = "add"
        /\ messages' = SelectSeq(messages, LAMBDA m : m.id # rec.id)
        /\ snapshot' = messages'
        /\ received' = Deliver(messages')
        /\ Return(c, Notify([rec EXCEPT !.error = TRUE]))
  /\ requests' = Tail(requests)
  /\ UNCHANGED <<table, editOperations, isSavingReorder, waiting, microtasks,
                 now, used, listeners, handles, genVars>>

\* db.messages.add rejects (line 83): addMessage has no try/catch, the
\* rejection is the result of the call
AddFails ==
  /\ Idle /\ requests # <<>>
  /\ LET c == Head(requests)
         rec == calls[c]
     IN /\ rec.req = "add"
        /\ Return(c, [rec EXCEPT !.error = TRUE])
        /\ Continue(c, TRUE)
  /\ requests' = Tail(requests)
  /\ UNCHANGED <<messages, table, editOperations, isSavingReorder, waiting,
                 microtasks, now, used, snapshot, listeners, received, handles>>

\* a failed reorder that keeps the single-flight flag set
ReorderFailsKeepsFlag ==
  /\ Idle /\ requests # <<>>
  /\ LET c == Head(requests)
         rec == calls[c]
     IN /\ rec.req = "bulkPut"
        /\ Return(c, [rec EXCEPT !.error = TRUE])
  /\ requests' = Tail(requests)
  /\ UNCHANGED <<messages, table, isSavingReorder, editOperations, waiting,
                 microtasks, now, used, snapshot, listeners, received, handles, genVars>>

\* one of the puts of Promise.all rejects (line 192): the puts that went
\* through stay in the table, lines 194-195 are skipped, the catch block
\* rethrows (lines 201-206) and the finally block clears the flag (208)
ReorderFails ==
  /\ Idle /\ requests # <<>>
  /\ LET c == Head(requests)
         rec == calls[c]
         updatedMessages == rec.local
     IN /\ rec.req = "bulkPut"
        /\ \E written \in SUBSET Range(updatedMessages) :
             /\ written # Range(updatedMessages)
             /\ table' = {r \in table : r.id \notin {m.id : m \in written}}
                           \cup written
        /\ Return(c, [rec EXCEPT !.error = TRUE])
  /\ isSavingReorder' = FALSE
  /\ requests' = Tail(requests)
  /\ UNCHANGED <<messages, editOperations, waiting, microtasks, now, used,
                 snapshot, listeners, received, handles, genVars>>

\* ------------------------------------------------------------- generate
\* the runs that have still to call addMessage with their result
Owed == Cardinality({r \in 1 .. Len(runs) : runs[r].pc \in {"add", "chat", "stream"}
                                            /\ runs[r].kind = "run"})

\* a handler may start: a task is free, and the store calls and ids it and
\* the running handlers may still need are within the bounds
CanHandle(needed) ==
  /\ Idle
  /\ Len(runs) < MaxRuns
  /\ Len(calls) + Owed + needed <= MaxCalls
  /\ Cardinality(Fresh) >= needed

\* a handleRun that hands whatever generate resolved to, null included,
\* to addMessage
ResolveCommitsNull(r, rec, outcome) ==
  LET k == rec.ctrl
      failed == outcome = "failed"
      content == IF failed THEN NoKey ELSE contentRef[k]
      done == [rec EXCEPT !.outcome = outcome, !.content = content,
                          !.toasts = IF failed THEN @ + 1 ELSE @]
  IN /\ Finally(k)
     /\ AddToStore(rec.id, "assistant", content)
     /\ runs' = [runs EXCEPT ![r] =
                   [done EXCEPT !.pc = "commit", !.call = Len(calls) + 1]]
     /\ UNCHANGED <<newMessage, settings, uiMode, rendered>>

\* generate of run r resolves (lines 126-129, 148 or 176), after its
\* finally block (177-185), and handleRun resumes in the same task
\* (page.tsx lines 255-262): a result is handed to addMessage, which runs
\* up to its durable add; null is dropped.  rec is the run as the
\* resolving step leaves it.
Resolve(r, rec, outcome) ==
  LET k == rec.ctrl
      failed == outcome = "failed"
      content == IF failed THEN NoKey ELSE contentRef[k]
      done == [rec EXCEPT !.outcome = outcome, !.content = content,
                          !.toasts = IF failed THEN @ + 1 ELSE @]
  IN /\ Finally(k)
     /\ IF failed
        THEN /\ runs' = [runs EXCEPT ![r] = [done EXCEPT !.pc = "done"]]
             /\ UNCHANGED storeVars
        ELSE /\ AddToStore(rec.id, "assistant", content)
             /\ runs' = [runs EXCEPT ![r] =
                           [done EXCEPT !.pc = "commit",
                                        !.call = Len(calls) + 1]]
     /\ UNCHANGED <<newMessage, settings, uiMode, rendered>>

\* the number of deltas the streams of runs 1..n have yielded
RECURSIVE Yielded(_)
Yielded(n) == IF n = 0 THEN 0 ELSE runs[n].count + Yielded(n - 1)

\* `await chat(...)` resolves with the stream (line 113)
ChatOpens(r) ==
  /\ Idle
  /\ r \in 1 .. Len(runs) /\ runs[r].pc = "chat"
  /\ runs' = [runs EXCEPT ![r].pc = "stream"]
  /\ UNCHANGED <<storeVars, state, shouldStopRef, contentRef, newMessage,
                 settings, uiMode, rendered>>

\* `await chat(...)` rejects: catch block, lines 149-176
ChatFails(r) ==
  /\ Idle
  /\ r \in 1 .. Len(runs) /\ runs[r].pc = "chat"
  /\ Resolve(r, runs[r], "failed")

\* the stream yields a delta: one turn of the loop, lines 119-141
Delta(r, delta) ==
  /\ Idle
  /\ r \in 1 .. Len(runs) /\ runs[r].pc = "stream"
  /\ Yielded(Len(runs)) < MaxFragments
  /\ LET k == runs[r].ctrl
         rec == [runs[r] EXCEPT !.count = @ + 1, !.sent = @ \o delta]
     IN IF shouldStopRef[k]
        THEN Resolve(r, rec, "stopped")
        ELSE /\ contentRef' = [contentRef EXCEPT ![k] = @ \o delta]
             /\ state' = [state EXCEPT ![k].generatingMessage =
                            Placeholder(rec.id, contentRef'[k])]
             /\ runs' = [runs EXCEPT ![r] = rec]
             /\ UNCHANGED <<storeVars, shouldStopRef, newMessage, settings,
                            uiMode, rendered>>

\* the stream ends: the loop is left, line 148
StreamEnds(r) ==
  /\ Idle
  /\ r \in 1 .. Len(runs) /\ runs[r].pc = "stream"
  /\ Resolve(r, runs[r], "completed")

\* the stream raises instead of yielding: catch block, lines 149-176
StreamFails(r) ==
  /\ Idle
  /\ r \in 1 .. Len(runs) /\ runs[r].pc = "stream"
  /\ Resolve(r, runs[r], "failed")

\* stop(), lines 80-83
Stop(k) ==
  /\ Idle
  /\ shouldStopRef' = [shouldStopRef EXCEPT ![k] = TRUE]
  /\ runs' = [r \in 1 .. Len(runs) |->
                IF Generating(r) /\ runs[r].ctrl = k /\ runs[r].atStop = NoKey
                THEN [runs[r] EXCEPT !.atStop = runs[r].sent]
                ELSE runs[r]]
  /\ UNCHANGED <<storeVars, state, contentRef, newMessage, settings, uiMode,
                 rendered>>

\* ------------------------------------------------------------- the page
\* a handler returns at a validation, after toast.error
Reject(kind, key) ==
  /\ runs' = Append(runs, [NewRun(kind, key, "page") EXCEPT
                             !.pc = "rejected", !.toasts = 1])
  /\ UNCHANGED <<storeVars, state, shouldStopRef, contentRef, newMessage,
                 settings, uiMode, rendered>>

\* handleContentChange, page.tsx lines 315-321
HandleContentChange(value) ==
  /\ Idle
  /\ value # newMessage
  /\ newMessage' = value
  /\ UNCHANGED <<storeVars, state, shouldStopRef, contentRef, runs, settings,
                 uiMode, rendered>>

\* a handleAddMessage that tests the content without trimming it
HandleAddMessageNoTrim ==
  /\ uiMode = "expert" /\ newMessage # ""
  /\ CanHandle(1)
  /\ AddToStore(Uuid(1), "user", newMessage)
  /\ runs' = Append(runs, [NewRun("add", "button", "page") EXCEPT
                             !.pc = "add", !.call = Len(calls) + 1,
                             !.msg = Uuid(1)])
  /\ UNCHANGED <<state, shouldStopRef, contentRef, newMessage,
                 settings, uiMode, rendered>>

\* the add button (expert mode, disabled while the box is empty, lines
\* 662-669) calls handleAddMessage(newMessage), lines 141-160
HandleAddMessage ==
  /\ uiMode = "expert" /\ newMessage # ""
  /\ IF Trim(newMessage) = ""
     THEN Idle /\ Len(runs) < MaxRuns /\ Reject("add", "button")
     ELSE /\ CanHandle(1)
          /\ AddToStore(Uuid(1), "user", newMessage)
          /\ runs' = Append(runs, [NewRun("add", "button", "page") EXCEPT
                                     !.pc = "add", !.call = Len(calls) + 1,
                                     !.msg = Uuid(1)])
          /\ UNCHANGED <<state, shouldStopRef, contentRef, newMessage,
                         settings, uiMode, rendered>>

\* a handleRun that puts the placeholder into the store when it calls
\* generate
RunAddsPlaceholder(key) ==
  IF ~settings
  THEN Idle /\ Len(runs) < MaxRuns /\ Reject("run", key)
  ELSE IF uiMode # "expert"
       THEN IF Trim(newMessage) = ""
            THEN Idle /\ Len(runs) < MaxRuns /\ Reject("run", key)
            ELSE /\ CanHandle(2)
                 /\ AddToStore(Uuid(1), "user", newMessage)
                 /\ runs' = Append(runs, [NewRun("run", key, "page") EXCEPT
                                            !.pc = "add",
                                            !.call = Len(calls) + 1,
                                            !.msg = Uuid(1), !.id = Uuid(2)])
                 /\ UNCHANGED <<state, shouldStopRef, contentRef, newMessage,
                                settings, uiMode, rendered>>
       ELSE /\ CanHandle(1)
            /\ runs' = Append(runs, [NewRun("run", key, "page") EXCEPT
                                       !.pc = "chat", !.id = Uuid(1),
                                       !.found = shouldStopRef["page"]])
            /\ Generate("page", Uuid(1))
            /\ AddToStore(Uuid(1), "assistant", "")
            /\ UNCHANGED <<newMessage, settings, uiMode, rendered>>

\* handleRun, page.tsx lines 233-254, up to its first await
Run(key) ==
  IF ~settings
  THEN Idle /\ Len(runs) < MaxRuns /\ Reject("run", key)
  ELSE IF uiMode # "expert"
       THEN IF Trim(newMessage) = ""
            THEN Idle /\ Len(runs) < MaxRuns /\ Reject("run", key)
            ELSE /\ CanHandle(2)
                 /\ AddToStore(Uuid(1), "user", newMessage)
                 /\ runs' = Append(runs, [NewRun("run", key, "page") EXCEPT
                                            !.pc = "add",
                                            !.call = Len(calls) + 1,
                                            !.msg = Uuid(1), !.id = Uuid(2)])
                 /\ UNCHANGED <<state, shouldStopRef, contentRef, newMessage,
                                settings, uiMode, rendered>>
       ELSE /\ CanHandle(1)
            /\ runs' = Append(runs, [NewRun("run", key, "page") EXCEPT
                                       !.pc = "chat", !.id = Uuid(1),
                                       !.found = shouldStopRef["page"]])
            /\ Generate("page", Uuid(1))
            /\ UNCHANGED <<storeVars, newMessage, settings, uiMode, rendered>>

\* the run button, which is the stop button while isRunning (line 689)
HandleRun ==
  /\ ~state["page"].isRunning
  /\ Run("button")

\* the stop button (line 689)
HandleStop ==
  /\ state["page"].isRunning
  /\ Stop("page")

\* Enter in the input box: handleKeyDown, lines 269-285
HandleKeyDown ==
  IF Trim(newMessage) = ""
  THEN Idle /\ Len(runs) < MaxRuns /\ Reject("key", "enter")
  ELSE Run("enter")

\* ------------------------------------------------------------ MessageList
\* (isRunning && generatingMessage) || (isRegenerating && regeneratingMessage),
\* message-list.tsx line 189: the props come from the controller of the
\* page, the other pair from the list's own controller; null when neither
\* operand is an object
GeneratingMsg(st) ==
  IF st["page"].isRunning /\ st["page"].generatingMessage # NoMessage
  THEN st["page"].generatingMessage
  ELSE IF st["list"].isRunning /\ st["list"].generatingMessage # NoMessage
       THEN st["list"].generatingMessage
       ELSE NoMessage

\* an overlay that always pushes the generating message
AllMessagesPushes(msgs, st) ==
  LET generatingMsg == GeneratingMsg(st)
  IN IF generatingMsg = NoMessage THEN msgs ELSE Append(msgs, generatingMsg)

\* allMessages, message-list.tsx lines 187-201
AllMessages(msgs, st) ==
  LET generatingMsg == GeneratingMsg(st)
      existingIndex == FindIndex(msgs, generatingMsg.id)
  IN IF generatingMsg = NoMessage THEN msgs
     ELSE IF existingIndex >= 0
          THEN [msgs EXCEPT ![existingIndex + 1] = generatingMsg]
          ELSE Append(msgs, generatingMsg)

\* MessageList renders the messages the page's listener received last
Render ==
  /\ Idle
  /\ rendered' = AllMessages(snapshot, state)
  /\ UNCHANGED <<storeVars, state, shouldStopRef, contentRef, runs,
                 newMessage, settings, uiMode>>

\* A rendered message is dragged by its handle and dropped over another
\* one.  Every entry of allMessages is a sortable item (message-list.tsx
\* lines 222-237); its handle carries the listeners of useSortable whether
\* or not the message isRunning and is hidden outside expert mode
\* (sortable-message.tsx lines 101-108, 394-401).  handleDragEnd
\* (use-messages.ts lines 105-109) passes the two ids to reorderMessages.
HandleDragEnd(activeId, overId) ==
  /\ uiMode = "expert"
  /\ {activeId, overId} \subseteq Range(IdsOf(AllMessages(snapshot, state)))
  /\ activeId # overId
  /\ \/ ReorderMessages(activeId, overId)
     \/ ReorderDropped(activeId, overId)

\* ----------------------------------------------------------------- clock
\* time passes between two tasks
Tick ==
  /\ Idle
  /\ now < MaxNow
  /\ now' = now + 1
  /\ UNCHANGED <<messages, table, editOperations, isSavingReorder, calls,
                 requests, waiting, microtasks, used, snapshot, listeners, received,
                 handles, genVars>>

\* ------------------------------------------------------- specifications
\* what an earlier session left in the durable table
InitialTable ==
  {Msg(2, "user", "x", NoKey, 0), Msg(3, "user", "x", NoKey, 1),
   Msg(4, "user", "x", NoKey, 2)}

\* the ids a caller passes: those of the messages it has seen, or another one
Targets == used \cup {UnknownId}

\* the listeners a caller subscribes: one that subscribed before, or a new
\* one, which takes the next number (listeners are interchangeable)
Joining ==
  Range(handles)
    \cup {l \in Listeners : /\ l \notin Range(handles)
                            /\ \A k \in 1 .. l - 1 : k \in Range(handles)}

\* handleDragEnd (use-messages.ts lines 105-109) passes two different ids
DragPairs == {p \in Targets \X Targets : p[1] # p[2]}

\* the controllers as constructed (use-chat-generation.ts lines 60-70)
\* and a page that has rendered the empty list
NoGeneration ==
  /\ state = [k \in Controllers |->
                [isRunning |-> FALSE, generatingMessage |-> NoMessage]]
  /\ shouldStopRef = [k \in Controllers |-> FALSE]
  /\ contentRef = [k \in Controllers |-> ""]
  /\ runs = <<>>
  /\ rendered = <<>>

\* the store as constructed (lines 27-30) over the durable table
Init ==
  /\ messages = <<>>
  /\ table = InitialTable
  /\ editOperations = <<>>
  /\ isSavingReorder = FALSE
  /\ calls = <<>>
  /\ requests = <<>>
  /\ waiting = <<>>
  /\ microtasks = <<>>
  /\ now = 2
  /\ used = TableIds(InitialTable)
  /\ snapshot = <<>>
  /\ listeners = <<>>
  /\ received = [l \in Listeners |-> NoReceipt]
  /\ handles = <<>>
  /\ NoGeneration
  /\ newMessage = "" /\ settings = TRUE /\ uiMode = "expert"

\* the store once init() has loaded the durable table (lines 59-63)
InitLoaded ==
  /\ messages = OrderByTimestamp(InitialTable)
  /\ table = InitialTable
  /\ editOperations = <<>>
  /\ isSavingReorder = FALSE
  /\ calls = <<>>
  /\ requests = <<>>
  /\ waiting = <<>>
  /\ microtasks = <<>>
  /\ now = 2
  /\ used = TableIds(InitialTable)
  /\ snapshot = messages
  /\ listeners = <<>>
  /\ received = [l \in Listeners |-> NoReceipt]
  /\ handles = <<>>
  /\ NoGeneration
  /\ newMessage = "" /\ settings = TRUE /\ uiMode = "expert"

\* the committed sequences MessageList may be given: up to MaxIds - 1
\* messages with different ids, in any order
Committed ==
  LET orders == UNION {[1 .. n -> Ids] : n \in 0 .. MaxIds - 1}
  IN {[i \in 1 .. Len(o) |-> Msg(o[i], "user", "x", NoKey, i)] :
        o \in {x \in orders : \A i, j \in 1 .. Len(x) : i # j => x[i] # x[j]}}

\* what a controller may hold: isRunning, and null or a placeholder
ControllerStates ==
  [isRunning : BOOLEAN,
   generatingMessage :
     {NoMessage} \cup {Placeholder(id, content) : id \in Ids, content \in {"", "a"}}]

\* MessageList given any committed sequence and any state of the two
\* controllers, before it has rendered
InitRender ==
  /\ messages \in Committed
  /\ table = Range(messages)
  /\ editOperations = <<>>
  /\ isSavingReorder = FALSE
  /\ calls = <<>>
  /\ requests = <<>>
  /\ waiting = <<>>
  /\ microtasks = <<>>
  /\ now = MaxNow
  /\ used = Range(IdsOf(messages))
  /\ snapshot = messages
  /\ listeners = <<>>
  /\ received = [l \in Listeners |-> NoReceipt]
  /\ handles = <<>>
  /\ state \in [Controllers -> ControllerStates]
  /\ shouldStopRef = [k \in Controllers |-> FALSE]
  /\ contentRef = [k \in Controllers |-> ""]
  /\ runs = <<>>
  /\ rendered = <<>>
  /\ newMessage = ""
  /\ settings = TRUE
  /\ uiMode = "expert"

\* the default system message that useMessages adds to an empty store
\* (use-messages.ts lines 69-74)
SystemMessage == Msg(1, "system", "x", NoKey, 0)

\* the page once useMessages has run on an empty table: the store holds
\* the system message and no generation has started
PageLoaded ==
  /\ messages = <<SystemMessage>>
  /\ table = {SystemMessage}
  /\ editOperations = <<>>
  /\ isSavingReorder = FALSE
  /\ calls = <<>>
  /\ requests = <<>>
  /\ waiting = <<>>
  /\ microtasks = <<>>
  /\ now = 2
  /\ used = {SystemMessage.id}
  /\ snapshot = messages
  /\ listeners = <<>>
  /\ received = [l \in Listeners |-> NoReceipt]
  /\ handles = <<>>
  /\ NoGeneration

\* the input box is empty; the settings and the mode are whatever the user
\* left in local storage
InitPage ==
  /\ PageLoaded
  /\ newMessage = ""
  /\ settings \in BOOLEAN
  /\ uiMode \in {"beginner", "expert"}

\* expert mode with an API key, and a typed into the input box
InitExpert ==
  /\ PageLoaded
  /\ newMessage = "a"
  /\ settings = TRUE
  /\ uiMode = "expert"

Resume ==
  \/ EditResume
  \/ DeleteResume
  \/ ReorderResume
  \/ DeleteFromResume
  \/ ClearResume

Complete ==
  \/ EditGetComplete
  \/ EditPutComplete
  \/ AddComplete
  \/ DeleteComplete
  \/ ReorderComplete
  \/ DeleteFromComplete
  \/ ClearComplete
  \/ ToArrayComplete

Next ==
  \/ \E id \in Targets, update \in Updates : EditMessage(id, update)
  \/ \E id \in Ids, content \in NewContents : AddMessage(id, content)
  \/ \E id \in Targets : DeleteMessage(id)
  \/ \E p \in DragPairs : ReorderMessages(p[1], p[2])
  \/ \E p \in DragPairs : ReorderDropped(p[1], p[2])
  \/ \E id \in Targets : DeleteMessagesFrom(id)
  \/ Clear
  \/ InitStore
  \/ GetAllMessages
  \/ Resume
  \/ Complete
  \/ Tick

Spec == Init /\ [][Next]_vars

\* every operation, on a loaded store
SpecLoaded == InitLoaded /\ [][Next]_vars

\* editMessage alone, on a loaded store
NextEdit ==
  \/ \E id \in Targets, update \in Updates : EditMessage(id, update)
  \/ EditResume
  \/ EditGetComplete
  \/ EditPutComplete

SpecEdit == InitLoaded /\ [][NextEdit]_vars

\* reorderMessages with editMessage, addMessage and getAllMessages
NextReorder ==
  \/ \E id \in Targets, update \in Updates : EditMessage(id, update)
  \/ \E id \in Ids, content \in NewContents : AddMessage(id, content)
  \/ \E p \in DragPairs : ReorderMessages(p[1], p[2])
  \/ \E p \in DragPairs : ReorderDropped(p[1], p[2])
  \/ GetAllMessages
  \/ EditResume
  \/ ReorderResume
  \/ EditGetComplete
  \/ EditPutComplete
  \/ AddComplete
  \/ ReorderComplete
  \/ Tick

SpecReorder == InitLoaded /\ [][NextReorder]_vars

\* reorderMessages with editMessage and getAllMessages
NextDrag ==
  \/ \E id \in Targets : EditMessage(id, StringUpdate("a"))
  \/ \E p \in DragPairs : ReorderMessages(p[1], p[2])
  \/ \E p \in DragPairs : ReorderDropped(p[1], p[2])
  \/ GetAllMessages
  \/ EditResume
  \/ ReorderResume
  \/ EditGetComplete
  \/ EditPutComplete
  \/ ReorderComplete

SpecDrag == InitLoaded /\ [][NextDrag]_vars

\* deleteMessage and deleteMessagesFrom with editMessage
NextDelete ==
  \/ \E id \in Targets, update \in Updates : EditMessage(id, update)
  \/ \E id \in Targets : DeleteMessage(id)
  \/ \E id \in Targets : DeleteMessagesFrom(id)
  \/ EditResume
  \/ DeleteResume
  \/ DeleteFromResume
  \/ EditGetComplete
  \/ EditPutComplete
  \/ DeleteComplete
  \/ DeleteFromComplete

SpecDelete == InitLoaded /\ [][NextDelete]_vars

\* addMessage and getAllMessages with listeners and failing writes
NextAdd ==
  \/ \E id \in Ids, content \in NewContents : AddMessage(id, content)
  \/ GetAllMessages
  \/ \E l \in Joining : Subscribe(l)
  \/ \E l \in Listeners : Unsubscribe(l)
  \/ AddComplete
  \/ AddFails

SpecAdd == InitLoaded /\ [][NextAdd]_vars

\* a drag of one cached message onto another
CachedPairs == {p \in DragPairs : {p[1], p[2]} \subseteq Range(IdsOf(messages))}

\* reorderMessages with failing writes
NextPersist ==
  \/ \E p \in CachedPairs : ReorderMessages(p[1], p[2])
  \/ \E p \in CachedPairs : ReorderDropped(p[1], p[2])
  \/ ReorderComplete
  \/ ReorderFails

SpecPersist == InitLoaded /\ [][NextPersist]_vars

\* init() and editMessage on a store that is not loaded yet
NextInit ==
  \/ InitStore
  \/ \E id \in Targets : EditMessage(id, StringUpdate("a"))
  \/ EditResume
  \/ EditGetComplete
  \/ EditPutComplete
  \/ ToArrayComplete

SpecInit == Init /\ [][NextInit]_vars

\* clear() with editMessage and a listener
NextClear ==
  \/ \E id \in used : EditMessage(id, StringUpdate("a"))
  \/ Clear
  \/ \E l \in Joining : Subscribe(l)
  \/ EditResume
  \/ ClearResume
  \/ EditGetComplete
  \/ EditPutComplete
  \/ ClearComplete

SpecClear == InitLoaded /\ [][NextClear]_vars

\* init() called again by a view that mounts (sortable-message.tsx line
\* 151), with addMessage, editMessage and deleteMessage, as time passes
NextSync ==
  \/ InitStore
  \/ \E id \in Ids, content \in NewContents : AddMessage(id, content)
  \/ \E id \in Targets : EditMessage(id, StringUpdate("ab"))
  \/ \E id \in Targets : DeleteMessage(id)
  \/ EditResume
  \/ DeleteResume
  \/ EditGetComplete
  \/ EditPutComplete
  \/ AddComplete
  \/ DeleteComplete
  \/ ToArrayComplete
  \/ Tick

SpecSync == InitLoaded /\ [][NextSync]_vars

\* edits typed into the messages of the list, and a drag
NextView ==
  \/ \E id \in used : HandleMessageEdit(id, "ab")
  \/ ReorderMessages(4, 2)
  \/ EditResume
  \/ ReorderResume
  \/ EditGetComplete
  \/ EditPutComplete
  \/ ReorderComplete
  \/ GetAllMessages
  \/ Tick

SpecView == InitLoaded /\ [][NextView]_vars

\* the operations that wait for each other: edits of one message, its
\* deletion, a drag, a truncation and clear(); a durable call returns with
\* success or, for the puts of a drag, with a failure
Returns ==
  \/ EditGetComplete
  \/ EditPutComplete
  \/ DeleteComplete
  \/ ReorderComplete
  \/ ReorderFails
  \/ DeleteFromComplete
  \/ ClearComplete

NextLive ==
  \/ EditMessage(2, StringUpdate("a"))
  \/ DeleteMessage(2)
  \/ ReorderMessages(4, 2)
  \/ ReorderDropped(4, 2)
  \/ DeleteMessagesFrom(3)
  \/ Clear
  \/ Resume
  \/ Returns

\* every durable call eventually returns, and the microtasks of the awaits
\* that have settled are run
SpecLive ==
  /\ InitLoaded
  /\ [][NextLive]_vars
  /\ WF_vars(Resume)
  /\ WF_vars(Returns)

\* edits of one message that queue behind each other, and a drag
NextQueue ==
  \/ EditMessage(2, StringUpdate("a"))
  \/ ReorderLast(4, 2)
  \/ EditResume
  \/ ReorderResume
  \/ EditGetComplete
  \/ EditPutComplete
  \/ ReorderComplete

SpecQueue == InitLoaded /\ [][NextQueue]_vars

\* the page: typing, the add, run and stop buttons, Enter, the provider
\* stream and the durable adds
NextPage ==
  \/ \E value \in Typed : HandleContentChange(value)
  \/ HandleAddMessage
  \/ HandleRun
  \/ HandleStop
  \/ HandleKeyDown
  \/ \E r \in 1 .. MaxRuns : ChatOpens(r)
  \/ \E r \in 1 .. MaxRuns : ChatFails(r)
  \/ \E r \in 1 .. MaxRuns, delta \in Fragments : Delta(r, delta)
  \/ \E r \in 1 .. MaxRuns : StreamEnds(r)
  \/ \E r \in 1 .. MaxRuns : StreamFails(r)
  \/ AddComplete
  \/ AddFails

SpecPage == InitPage /\ [][NextPage]_vars

\* generations of the page in either mode, with a provider that may fail
\* and durable adds that complete
NextStream ==
  \/ HandleContentChange("a")
  \/ HandleRun
  \/ HandleKeyDown
  \/ HandleStop
  \/ \E r \in 1 .. MaxRuns : ChatOpens(r)
  \/ \E r \in 1 .. MaxRuns : ChatFails(r)
  \/ \E r \in 1 .. MaxRuns : Delta(r, "a")
  \/ \E r \in 1 .. MaxRuns : StreamEnds(r)
  \/ \E r \in 1 .. MaxRuns : StreamFails(r)
  \/ AddComplete

SpecStream == InitPage /\ [][NextStream]_vars

\* drags in the list of the page while it generates, in expert mode
NextDragList ==
  \/ HandleRun
  \/ \E r \in 1 .. MaxRuns : ChatOpens(r)
  \/ \E r \in 1 .. MaxRuns : Delta(r, "a")
  \/ \E r \in 1 .. MaxRuns : StreamEnds(r)
  \/ \E activeId \in Ids, overId \in Ids : HandleDragEnd(activeId, overId)
  \/ AddComplete
  \/ ReorderComplete

SpecDragList == InitExpert /\ [][NextDragList]_vars

\* the inputs of the page that its validations see: any text in the box,
\* with or without an API key, in either mode
NextValidate ==
  \/ \E value \in Typed : HandleContentChange(value)
  \/ HandleAddMessage
  \/ HandleRun
  \/ HandleKeyDown
  \/ \E r \in 1 .. MaxRuns : ChatOpens(r)
  \/ \E r \in 1 .. MaxRuns : Delta(r, "a")
  \/ \E r \in 1 .. MaxRuns : StreamEnds(r)
  \/ AddComplete

SpecValidate == InitPage /\ [][NextValidate]_vars

\* MessageList renders what it is given
NextRender ==
  \/ Render

SpecRender == InitRender /\ [][NextRender]_vars

\* the controller of the page as its hook is used: generate through the
\* run button and through Enter, stop() at any time; the durable adds of
\* the results stay in flight
NextHook ==
  \/ HandleRun
  \/ HandleKeyDown
  \/ Stop("page")
  \/ \E r \in 1 .. MaxRuns : ChatOpens(r)
  \/ \E r \in 1 .. MaxRuns : Delta(r, "a")
  \/ \E r \in 1 .. MaxRuns : StreamEnds(r)

SpecHook == InitExpert /\ [][NextHook]_vars

\* listeners that mutate what they were handed, with addMessage
NextMutate ==
  \/ \E id \in Ids, content \in NewContents : AddMessage(id, content)
  \/ \E l \in Joining : Subscribe(l)
  \/ \E l \in Listeners : ListenerMutates(l)
  \/ AddComplete

SpecMutate == InitLoaded /\ [][NextMutate]_vars

\* every call made so far has returned
Settled == \A c \in 1 .. Len(calls) : calls[c].pc = "done"

\* every operation that changes the cache, each awaited before the next is
\* called, with listeners that subscribe at any point
NextNotify ==
  \/ Settled /\ InitStore
  \/ Settled /\ \E id \in Ids, content \in NewContents : AddMessage(id, content)
  \/ Settled /\ EditMessage(2, StringUpdate("a"))
  \/ Settled /\ DeleteMessage(2)
  \/ Settled /\ ReorderMessages(4, 2)
  \/ Settled /\ DeleteMessagesFrom(3)
  \/ Settled /\ Clear
  \/ \E l \in Joining : Subscribe(l)
  \/ Complete

SpecNotify == InitLoaded /\ [][NextNotify]_vars

\* init() on a store whose table was reordered and whose cache holds a
\* message that was not written, with listeners
NextReload ==
  \/ InitStore
  \/ \E id \in Ids, content \in NewContents : AddMessage(id, content)
  \/ ReorderMessages(4, 2)
  \/ \E l \in Joining : Subscribe(l)
  \/ AddComplete
  \/ AddFails
  \/ ReorderComplete
  \/ ToArrayComplete

SpecReload == InitLoaded /\ [][NextReload]_vars

\* ------------------------------------------------------------ properties
AllDone == \A c \in 1 .. Len(calls) : calls[c].pc = "done"
Cached(id) == {messages[i] : i \in {j \in 1 .. Len(messages) : messages[j].id = id}}
Stored(id) == TableGet(table, id)
EditsOf(id) == {c \in 1 .. Len(calls) : calls[c].kind = "edit" /\ calls[c].id = id}

\* the operation body of edit call c is in flight: its durable get or put
\* is issued and the operation has not finished
InFlight(c) == calls[c].kind = "edit" /\ calls[c].pc = "db"

\* the updates of the edit calls on id, applied one after the other in
\* submission order to message m
RECURSIVE ApplyInOrder(_, _, _)
ApplyInOrder(m, id, from) ==
  IF from > Len(calls) THEN m
  ELSE ApplyInOrder(IF calls[from].kind = "edit" /\ calls[from].id = id
                    THEN Merge(m, calls[from].update) ELSE m,
                    id, from + 1)

\* C1: once every editMessage call on an existing message has resolved, the
\* cached message and the durable record both equal the result of applying
\* the updates one after the other in submission order.
C1_EditsAppliedInSubmissionOrder ==
  AllDone =>
    \A m \in InitialTable :
      /\ Cached(m.id) = {ApplyInOrder(m, m.id, 1)}
      /\ Stored(m.id) = {ApplyInOrder(m, m.id, 1)}

\* C2: at most one edit operation body is in flight for the id of any
\* stored message.
C2_AtMostOneInFlightPerId ==
  \A c, d \in 1 .. Len(calls) :
    (/\ InFlight(c) /\ InFlight(d)
     /\ calls[c].id = calls[d].id
     /\ calls[c].id \in TableIds(table)) => c = d

\* the scenario of C5: the first two calls are editMessage(m1, "a") and
\* editMessage(m1, "ab") on the existing message m1 = 2, and no other call
\* is made on m1
TwoEdits ==
  /\ Len(calls) >= 2
  /\ calls[1].kind = "edit" /\ calls[1].id = 2
  /\ calls[1].update = StringUpdate("a")
  /\ calls[2].kind = "edit" /\ calls[2].id = 2
  /\ calls[2].update = StringUpdate("ab")
  /\ EditsOf(2) = {1, 2}

\* C5: with exactly the two calls editMessage(m1, "a") and
\* editMessage(m1, "ab"), the second operation is in flight only after the
\* first has finished, and once both have resolved the content of m1 is
\* "ab" in the cache and in the durable table.
C5_SecondEditAfterFirst ==
  TwoEdits =>
    /\ InFlight(2) => calls[1].pc = "done"
    /\ (calls[1].pc = "done" /\ calls[2].pc = "done") =>
         /\ \A m \in Cached(2) \cup Stored(2) : m.content = "ab"
         /\ Cached(2) # {} /\ Stored(2) # {}

\* the second edit was submitted while the first was pending, awaited it,
\* and both have resolved
C5_Witness ==
  /\ TwoEdits
  /\ calls[2].wait = 1
  /\ calls[1].pc = "done" /\ calls[2].pc = "done"
  /\ \A m \in Cached(2) \cup Stored(2) : m.content = "ab"

\* C3: an edit that was pending when a reorder started is not lost: once
\* both have completed, the cache entry and the durable record of the
\* message carry the fields of the edit's update.
C3_ReorderKeepsPendingEdit ==
  \A e, r \in 1 .. Len(calls) :
    (/\ calls[e].kind = "edit" /\ calls[r].kind = "reorder"
     /\ ~calls[r].dropped
     /\ e \in calls[r].pending
     /\ calls[e].id \in Range(IdsOf(calls[r].before))
     /\ EditsOf(calls[e].id) = {e}
     /\ calls[e].pc = "done" /\ calls[r].pc = "done")
    => /\ Cached(calls[e].id) # {} /\ Stored(calls[e].id) # {}
       /\ \A m \in Cached(calls[e].id) \cup Stored(calls[e].id) :
            Merge(m, calls[e].update) = m

\* a step in which deleteMessage call d issues its durable delete for a
\* stored message
IssuesDelete(d) ==
  /\ calls'[d].kind = "delete" /\ calls'[d].pc = "db"
  /\ d > Len(calls) \/ calls[d].pc # "db"
  /\ calls'[d].id \in TableIds(table)

\* once deleteMessage(id) and the earlier edits of id have resolved, id is
\* in neither the cache nor the durable table
DeletedIsAbsent ==
  \A d \in 1 .. Len(calls) :
    (/\ calls[d].kind = "delete" /\ calls[d].pc = "done"
     /\ \A e \in EditsOf(calls[d].id) : e < d => calls[e].pc = "done")
    => Cached(calls[d].id) = {} /\ Stored(calls[d].id) = {}

\* C4: deleteMessage(id) does not issue its durable delete while an edit
\* operation for id is in flight, and once it and every editMessage on id
\* submitted before it have resolved, id is absent from the cache and from
\* the durable table.
C4_DeleteAfterEdits ==
  /\ [][\A d \in 1 .. Len(calls') :
          IssuesDelete(d) =>
            ~\E e \in 1 .. Len(calls') :
               /\ calls'[e].kind = "edit" /\ calls'[e].pc = "db"
               /\ calls'[e].id = calls'[d].id]_vars
  /\ []DeletedIsAbsent

Without(ids, id) == SelectSeq(ids, LAMBDA x : x # id)

\* a reorder of two different cached ids, called while no other operation
\* was in flight, with getAllMessages as the next call
ReorderThenGetAll(r) ==
  /\ r + 1 <= Len(calls)
  /\ calls[r].kind = "reorder" /\ ~calls[r].dropped
  /\ calls[r].pending = {}
  /\ calls[r].id # calls[r].over
  /\ {calls[r].id, calls[r].over} \subseteq Range(IdsOf(calls[r].before))
  /\ calls[r + 1].kind = "getAll" /\ calls[r + 1].pc = "done"

\* C6: reorderMessages(a, b) followed by getAllMessages returns a sequence
\* with a at the index b held before the call and the other messages in
\* their former relative order.
C6_ReorderMovesActiveToOver ==
  \A r \in 1 .. Len(calls) :
    ReorderThenGetAll(r) =>
      LET prev == IdsOf(calls[r].before)
          result == IdsOf(calls[r + 1].local)
          a == calls[r].id
          b == calls[r].over
      IN /\ Len(result) = Len(prev)
         /\ result[FindIndex(calls[r].before, b) + 1] = a
         /\ Without(result, a) = Without(prev, a)

\* the first message of three was moved to the place of the last
C6_Witness ==
  \E r \in 1 .. Len(calls) :
    /\ ReorderThenGetAll(r)
    /\ IdsOf(calls[r].before) = <<2, 3, 4>>
    /\ calls[r].id = 2 /\ calls[r].over = 4
    /\ IdsOf(calls[r + 1].local) = <<3, 4, 2>>

\* a step in which reorderMessages call c completes
ReorderCompletes(c) ==
  /\ calls[c].kind = "reorder" /\ calls[c].pc = "db" /\ calls'[c].pc = "done"

\* C7: when reorderMessages completes and nothing else is pending, loading
\* the durable table in timestamp order, as init() does, yields the id
\* sequence the cache holds.
C7_ReloadAfterReorder ==
  [][\A c \in 1 .. Len(calls) :
       (ReorderCompletes(c) /\ requests' = <<>> /\ waiting' = <<>>)
       => IdsOf(OrderByTimestamp(table')) = IdsOf(messages')]_vars

\* C8: a reorderMessages call made while a reorder is being saved returns
\* at once, changes neither cache nor durable table, notifies nobody, issues
\* nothing, and never runs later.
C8_ReorderInProgressDropsCall ==
  [][/\ \A c \in 1 .. Len(calls') :
          (c > Len(calls) /\ calls'[c].kind = "reorder" /\ isSavingReorder)
          => /\ calls'[c].pc = "done" /\ calls'[c].notes = 0
             /\ UNCHANGED <<messages, table, snapshot, requests, waiting,
                            microtasks, editOperations, isSavingReorder>>
     /\ \A c \in 1 .. Len(calls) :
          (calls[c].kind = "reorder" /\ calls[c].pc = "done"
           /\ calls[c].notes = 0) => calls'[c] = calls[c]]_vars

\* a call was dropped and the reorder that made it so is still being saved
C8_Witness ==
  \E c \in 1 .. Len(calls) :
    /\ calls[c].kind = "reorder" /\ calls[c].dropped
    /\ isSavingReorder
    /\ \E r \in 1 .. c - 1 : calls[r].kind = "reorder" /\ calls[r].pc = "db"

\* a step in which deleteMessagesFrom call d returns without a bulk delete
ReturnsUnfound(d) ==
  /\ calls'[d].kind = "deleteFrom" /\ calls'[d].pc = "done"
  /\ d > Len(calls) \/ calls[d].pc = "await"

\* a step in which the bulk delete of deleteMessagesFrom call d completes
TruncateCompletes(d) ==
  /\ d <= Len(calls)
  /\ calls[d].kind = "deleteFrom" /\ calls[d].pc = "db" /\ calls'[d].pc = "done"

\* C9: deleteMessagesFrom(id), for an id at cache index i, removes from the
\* cache and from the durable table the messages at indices i and above,
\* keeps the messages below i as they are, and notifies once; for an id
\* that is not in the cache it changes nothing and does not notify.
C9_DeleteFromTruncates ==
  [][\A d \in 1 .. Len(calls') :
       /\ (TruncateCompletes(d) /\ FindIndex(messages, calls[d].id) # -1) =>
            LET i == FindIndex(messages, calls[d].id)
            IN /\ messages' = Slice(messages, 0, i)
               /\ \A k \in i + 1 .. Len(messages) :
                    messages[k].id \notin TableIds(table')
               /\ calls'[d].notes = 1
       /\ ReturnsUnfound(d) =>
            /\ FindIndex(messages, calls'[d].id) = -1
            /\ UNCHANGED <<messages, table, snapshot>>
            /\ calls'[d].notes = 0]_vars

Ascending(array) ==
  \A i \in 1 .. Len(array) - 1 : array[i].timestamp <= array[i + 1].timestamp

\* C10: getAllMessages, called after addMessage(m) and every earlier
\* operation have completed, returns a sequence in ascending timestamp order
\* that contains m exactly once.
C10_AddThenGetAllAscending ==
  \A g \in 2 .. Len(calls) :
    (/\ calls[g].kind = "getAll" /\ calls[g].pc = "done"
     /\ calls[g - 1].kind = "add" /\ calls[g].pending = {})
    => /\ Ascending(calls[g].local)
       /\ Cardinality({i \in 1 .. Len(calls[g].local) :
                         calls[g].local[i].id = calls[g - 1].id}) = 1

\* a step in which call c is made
Called(c, kind) == c = Len(calls) + 1 /\ Len(calls') = c /\ calls'[c].kind = kind

\* C11: addMessage appends the message to the cache and notifies every
\* subscriber with it in the step that issues the durable add, when the
\* table does not hold it yet; and the table never holds an added message
\* of which the listeners were not notified.
C11_AddNotifiesBeforePersist ==
  /\ [][\A c \in 1 .. Len(calls') :
         Called(c, "add") =>
           /\ calls'[c].local[1] \in Range(messages')
           /\ snapshot' = messages' /\ calls'[c].notes = 1
           /\ \A l \in Range(listeners) :
                /\ received'[l].last = messages'
                /\ received'[l].count = received[l].count + 1
           /\ calls'[c].pc = "db"
           /\ TableGet(table', calls'[c].id) = {}]_vars
  /\ [](\A c \in 1 .. Len(calls) :
          (calls[c].kind = "add" /\ Stored(calls[c].id) # {})
          => calls[c].notes = 1)

\* two listeners have seen an added message that the table does not hold
C11_Witness ==
  \E c \in 1 .. Len(calls) :
    /\ calls[c].kind = "add" /\ calls[c].pc = "db"
    /\ Len(listeners) = 2
    /\ \A l \in Range(listeners) : calls[c].local[1] \in Range(received[l].last)
    /\ Stored(calls[c].id) = {}

\* a step in which the durable request of call c fails
Fails(c, kind) ==
  /\ calls[c].kind = kind /\ calls[c].pc = "db"
  /\ calls'[c].pc = "done" /\ calls'[c].error

\* C12: when the durable add fails, addMessage returns the failure to its
\* caller and does nothing else: the cache keeps the added message, the
\* table does not hold it, and no listener is invoked.
C12_AddFailureKeepsOptimisticMessage ==
  /\ [][\A c \in 1 .. Len(calls) :
         Fails(c, "add") =>
           /\ UNCHANGED <<messages, table, snapshot, received, listeners>>
           /\ calls'[c].notes = calls[c].notes]_vars
  /\ [](\A c \in 1 .. Len(calls) :
          (calls[c].kind = "add" /\ calls[c].error)
          => /\ calls[c].pc = "done" /\ calls[c].notes = 1
             /\ Cached(calls[c].id) = {calls[c].local[1]}
             /\ Stored(calls[c].id) = {})

\* an addMessage has failed, and a listener holds the message it added
C12_Witness ==
  \E c \in 1 .. Len(calls) :
    /\ calls[c].kind = "add" /\ calls[c].error /\ calls[c].pc = "done"
    /\ Cached(calls[c].id) # {}
    /\ \E l \in Range(listeners) : calls[c].local[1] \in Range(received[l].last)

\* reorderMessages call c was the last one to go ahead
LastReorder(c) ==
  /\ calls[c].kind = "reorder" /\ ~calls[c].dropped
  /\ \A d \in c + 1 .. Len(calls) :
       calls[d].kind = "reorder" => calls[d].dropped

\* C13: when the bulk persist of reorderMessages fails, the call returns
\* the error, the cache keeps the new order, no listener is invoked again,
\* the flag is cleared, and a reorderMessages call made afterwards goes
\* ahead.
C13_ReorderFailureReleasesFlag ==
  /\ [][\A c \in 1 .. Len(calls) :
         Fails(c, "reorder") =>
           /\ UNCHANGED <<messages, snapshot, received>>
           /\ calls'[c].notes = calls[c].notes
           /\ ~isSavingReorder']_vars
  /\ [](\A c \in 1 .. Len(calls) :
          (LastReorder(c) /\ calls[c].error)
          => IdsOf(messages) =
               IdsOf(ArrayMove(calls[c].before,
                               FindIndex(calls[c].before, calls[c].id),
                               FindIndex(calls[c].before, calls[c].over))))
  /\ [][\A c \in 1 .. Len(calls') :
         (/\ Called(c, "reorder")
          /\ \E e \in 1 .. Len(calls) : calls[e].kind = "reorder" /\ calls[e].error
          /\ \A e \in 1 .. Len(calls) :
               calls[e].kind = "reorder" => calls[e].pc = "done")
         => ~calls'[c].dropped /\ calls'[c].pc = "db"]_vars

\* a reorder of <<2, 3, 4>> failed with the cache left in the new order, and
\* the next reorderMessages call went ahead
C13_Witness ==
  \E e, c \in 1 .. Len(calls) :
    /\ e < c
    /\ calls[e].kind = "reorder" /\ calls[e].error
    /\ IdsOf(calls[e].before) = <<2, 3, 4>>
    /\ calls[e].id = 4 /\ calls[e].over = 2
    /\ calls[c].kind = "reorder" /\ ~calls[c].dropped
    /\ e \notin calls[c].pending
    /\ IdsOf(calls[c].before) = <<4, 2, 3>>

\* the durable get of edit call c is about to complete
GetCompletes(c) ==
  /\ calls[c].kind = "edit" /\ calls[c].req = "get"
  /\ calls'[c] # calls[c]

\* id is missing from the durable table or from the cache
Missing(id) == TableGet(table, id) = {} \/ FindIndex(messages, id) = -1

\* C14: editMessage on an id that is missing from the durable table or
\* from the cache resolves without error, writes nothing, changes neither
\* the cache nor what the listeners received, and leaves no entry for the
\* id in the map of pending operations.
C14_EditOfMissingIdIsNoOp ==
  [][\A c \in 1 .. Len(calls) :
       (GetCompletes(c) /\ Missing(calls[c].id)) =>
         /\ calls'[c].pc = "done" /\ ~calls'[c].error
         /\ calls'[c].notes = 0
         /\ UNCHANGED <<messages, table, snapshot, received>>
         /\ c \notin Range(requests')
         /\ MapGet(editOperations', calls[c].id) = NoOp]_vars

\* one edit found its id in the table and not in the cache, another found
\* it in neither, and both resolved as no-ops
C14_Witness ==
  \E c, d \in 1 .. Len(calls) :
    /\ calls[c].kind = "edit" /\ calls[c].pc = "done" /\ calls[c].notes = 0
    /\ Stored(calls[c].id) # {} /\ Cached(calls[c].id) = {}
    /\ calls[d].kind = "edit" /\ calls[d].pc = "done" /\ calls[d].notes = 0
    /\ calls[d].id = UnknownId
    /\ editOperations = <<>>

\* a step in which the durable put of edit call c completes
PutCompletes(c) ==
  /\ calls[c].kind = "edit" /\ calls[c].req = "put"
  /\ calls'[c].pc = "done"

\* record merged is message current with the update applied to it: a string
\* replaces content only, an object overrides the fields it carries
MergedFrom(merged, current, update) ==
  IF update.isString
  THEN merged = [current EXCEPT !.content = update.content]
  ELSE /\ merged.id = current.id /\ merged.timestamp = current.timestamp
       /\ merged.role = update.role /\ merged.content = update.content
       /\ merged.files = IF update.files = NoKey THEN current.files
                         ELSE update.files

\* C15: when the put of editMessage(id, update) completes, the table and
\* the cache hold the same record, which is the cached message of id with
\* the update merged into it; the message keeps its index, the other
\* messages are unchanged, and the listeners are notified once.
C15_EditWritesMergedRecord ==
  [][\A c \in 1 .. Len(calls) :
       PutCompletes(c) =>
         LET i == FindIndex(messages, calls[c].id)
         IN /\ i # -1
            /\ MergedFrom(messages'[i + 1], messages[i + 1], calls[c].update)
            /\ TableGet(table', calls[c].id) = {messages'[i + 1]}
            /\ \A k \in 1 .. Len(messages) :
                 k # i + 1 => messages'[k] = messages[k]
            /\ Len(messages') = Len(messages)
            /\ calls'[c].notes = 1 /\ snapshot' = messages']_vars

\* a step in which clear call c issues the durable clear
IssuesClear(c) ==
  /\ calls'[c].kind = "clear" /\ calls'[c].req = "clear"
  /\ c > Len(calls) \/ calls[c].req # "clear"

\* a step in which clear call c resolves
ClearResolves(c) ==
  /\ calls[c].kind = "clear" /\ calls[c].pc # "done" /\ calls'[c].pc = "done"

\* C16: clear() issues the durable clear only when every edit call that
\* was pending when it was called has finished, and when it resolves the
\* cache and the table are empty and every subscriber last received the
\* empty sequence.
C16_ClearWaitsAndEmpties ==
  [][\A c \in 1 .. Len(calls') :
       /\ IssuesClear(c) =>
            \A e \in calls'[c].pending :
              calls[e].kind = "edit" => calls'[e].pc = "done"
       /\ (c <= Len(calls) /\ ClearResolves(c)) =>
            /\ messages' = <<>> /\ table' = {} /\ snapshot' = <<>>
            /\ \A l \in Range(listeners') : received'[l].last = <<>>]_vars

\* a step in which subscribe(l) is called
Subscribes(l) ==
  Len(handles') = Len(handles) + 1 /\ handles'[Len(handles')] = l

\* a step in which some store call runs notify()
Notifies ==
  \E c \in 1 .. Len(calls') :
    calls'[c].notes > (IF c <= Len(calls) THEN calls[c].notes ELSE 0)

\* listener l is subscribed: subscribe(l) was called and no handle of l
\* has been called since
Subscribed(l) == l \in Range(handles) /\ ~received[l].off

\* C17: subscribe(listener) invokes the listener once, with the cache;
\* once a handle of the listener has been called no store operation invokes
\* it, until it subscribes again; every notification invokes each listener
\* that is subscribed, once.
C17_SubscribeAndUnsubscribe ==
  [][\A l \in Listeners :
       /\ Subscribes(l) =>
            /\ received'[l].count = received[l].count + 1
            /\ received'[l].last = messages /\ UNCHANGED messages
       /\ (received[l].off /\ received'[l].off) =>
            received'[l].count = received[l].count
       /\ (Notifies /\ Subscribed(l)) =>
            /\ received'[l].count = received[l].count + 1
            /\ received'[l].last = messages']_vars

\* listener 1 unsubscribed before an addMessage and does not hold the added
\* message; listener 2 stayed subscribed and holds it
C17_Witness ==
  \E c \in 1 .. Len(calls) :
    /\ calls[c].kind = "add" /\ calls[c].notes = 1
    /\ received[1].off /\ received[1].count = 1
    /\ calls[c].local[1] \notin Range(received[1].last)
    /\ Subscribed(2) /\ received[2].count = 2
    /\ calls[c].local[1] \in Range(received[2].last)

\* a step in which listener l mutates the array it holds and the store
\* runs nothing
Mutates(l) ==
  /\ received'[l].last # received[l].last
  /\ calls' = calls /\ handles' = handles

\* C18: a listener that mutates the array it was handed, by subscribe or
\* by a notification, does not change the cache.
C18_SnapshotsAreCopies ==
  [][\A l \in Listeners : Mutates(l) => messages' = messages]_vars

\* C19: whenever control is yielded, every subscribed listener last
\* received the contents of the cache; and a notification invokes the
\* members of the listener set in the order in which they joined it.
C19_ListenersHoldTheCache ==
  /\ [](\A l \in Listeners : Subscribed(l) => received[l].last = messages)
  /\ [][Notifies =>
         \A i, j \in 1 .. Len(listeners) :
           i < j => /\ received'[listeners[i]].rank > 0
                    /\ received'[listeners[i]].rank
                         < received'[listeners[j]].rank]_vars

\* two listeners were notified of both phases of a reorder, in the order
\* in which they subscribed, and hold the reordered cache
C19_Witness ==
  \E c \in 1 .. Len(calls) :
    /\ calls[c].kind = "reorder" /\ calls[c].notes = 2
    /\ listeners = <<1, 2>>
    /\ received[1].rank = 1 /\ received[2].rank = 2
    /\ received[1].count >= 3 /\ received[2].count >= 3
    /\ received[1].last = messages /\ received[2].last = messages
    /\ IdsOf(messages) = <<4, 2, 3>>

\* a step in which init call c resolves
InitResolves(c) ==
  /\ calls[c].kind = "init" /\ calls[c].pc = "db" /\ calls'[c].pc = "done"

\* C20: when init() resolves, the cache holds exactly the records of the
\* durable table in ascending timestamp order, and every subscribed
\* listener was invoked once, with that sequence.
C20_InitLoadsTableInTimestampOrder ==
  [][\A c \in 1 .. Len(calls) :
       InitResolves(c) =>
         /\ Range(messages') = table
         /\ Len(messages') = Cardinality(table)
         /\ Ascending(messages')
         /\ calls'[c].notes = 1 /\ snapshot' = messages'
         /\ \A l \in Listeners :
              Subscribed(l) => /\ received'[l].last = messages'
                               /\ received'[l].count = received[l].count + 1]_vars

\* init() ran after a reorder had rewritten the timestamps and an add had
\* failed: the cache is in the reordered order, without the unwritten
\* message, and a listener holds it
C20_Witness ==
  \E c, a \in 1 .. Len(calls) :
    /\ calls[c].kind = "init" /\ calls[c].pc = "done" /\ calls[c].notes = 1
    /\ a < c /\ calls[a].kind = "add" /\ calls[a].error
    /\ Cached(calls[a].id) = {}
    /\ IdsOf(messages) = <<4, 2, 3>>
    /\ \E l \in Listeners : Subscribed(l) /\ received[l].last = messages
\* ------------------------------------------------------------ generation
\* C21: for one generation controller at most one generate call is
\* running at any time, whichever view action started it.
C21_OneGenerationPerController ==
  \A k \in Controllers :
    Cardinality({r \in 1 .. Len(runs) : Generating(r) /\ runs[r].ctrl = k}) <= 1

\* a step in which the generate call of run r resolves
GenerateResolves(r) ==
  /\ r \in 1 .. Len(runs) /\ Generating(r)
  /\ runs'[r].pc \notin {"chat", "stream"}

\* C22: a generate during which stop() was called resolves by the stop
\* path, not by the end of the stream or by an error, and returns the
\* concatenation of the deltas the stream yielded to it before the stop.
C22_StopReturnsContentBeforeStop ==
  [][\A r \in 1 .. MaxRuns :
       (GenerateResolves(r) /\ runs[r].atStop # NoKey) =>
         /\ runs'[r].outcome = "stopped"
         /\ runs'[r].content = runs[r].atStop]_vars

\* C23: stop() calls made when no generate is running do not stop the next
\* generate: a generate resolves by the stop path only if stop() was
\* called while it was running.
C23_StopWhileIdleHasNoEffect ==
  [][\A r \in 1 .. MaxRuns :
       (GenerateResolves(r) /\ runs'[r].outcome = "stopped") =>
         runs[r].atStop # NoKey]_vars

\* the first generate was called with the stop flag set, by a stop() made
\* before any generation, and returned every delta of its stream
C23_Witness ==
  /\ Len(runs) > 0
  /\ runs[1].found /\ runs[1].atStop = NoKey
  /\ runs[1].outcome = "completed"
  /\ runs[1].count = MaxFragments /\ runs[1].content = runs[1].sent

\* the addMessage calls made with id
AddCalls(id) ==
  {c \in 1 .. Len(calls) : calls[c].kind = "add" /\ calls[c].id = id}

\* C24: when chat() or the stream raises, generate resolves to null, the
\* handler has shown one error notification, and no store call is made
\* then or later with the id of that generation.
C24_ProviderErrorResolvesToNull ==
  /\ [][\A r \in 1 .. MaxRuns :
          (GenerateResolves(r) /\ runs'[r].outcome = "failed") =>
            /\ runs'[r].content = NoKey
            /\ runs'[r].toasts = 1
            /\ calls' = calls /\ messages' = messages /\ table' = table]_vars
  /\ [](\A r \in 1 .. Len(runs) :
          runs[r].outcome = "failed" =>
            /\ AddCalls(runs[r].id) = {} /\ runs[r].id \notin used
            /\ runs[r].toasts = 1 /\ runs[r].pc = "done")

\* a beginner-mode run whose stream raised after a delta: its user message
\* is in the table, the generation left nothing in the store
C24_Witness ==
  \E r \in 1 .. Len(runs) :
    /\ runs[r].outcome = "failed" /\ runs[r].count > 0
    /\ runs[r].msg \in TableIds(table)
    /\ runs[r].id \notin TableIds(table)
    /\ ~state["page"].isRunning

\* a step in which generate is called for run r
GenerateStarts(r) ==
  /\ r \in 1 .. Len(runs') /\ runs'[r].pc = "chat"
  /\ (r > Len(runs) \/ runs[r].pc = "add")

\* a step in which the generate call of run r appends a delta
Appends(r) ==
  /\ r \in 1 .. Len(runs) /\ runs[r].pc = "stream" /\ runs'[r].pc = "stream"
  /\ runs'[r].count = runs[r].count + 1

\* C25: generate sets isRunning with an empty placeholder that carries its
\* id; every delta it appends republishes the placeholder with the
\* concatenation of its deltas so far; while a generate is running the
\* controller is running; a graceful end returns the whole concatenation;
\* and when generate resolves, on whichever path, isRunning is false,
\* generatingMessage is null and the flag and the buffer are reset.
C25_GenerationLifecycle ==
  /\ [][\A r \in 1 .. MaxRuns :
          /\ GenerateStarts(r) =>
                state'[runs'[r].ctrl] =
                  [isRunning |-> TRUE,
                   generatingMessage |-> Placeholder(runs'[r].id, "")]
          /\ Appends(r) =>
                state'[runs[r].ctrl] =
                  [isRunning |-> TRUE,
                   generatingMessage |-> Placeholder(runs[r].id, runs'[r].sent)]
          /\ GenerateResolves(r) =>
                /\ state'[runs[r].ctrl] =
                     [isRunning |-> FALSE, generatingMessage |-> NoMessage]
                /\ ~shouldStopRef'[runs[r].ctrl]
                /\ contentRef'[runs[r].ctrl] = ""
                /\ runs'[r].outcome = "completed" =>
                     runs'[r].content = runs[r].sent]_vars
  /\ [](\A r \in 1 .. Len(runs) :
          Generating(r) => state[runs[r].ctrl].isRunning)

\* a step of the generate call of run r that leaves it running
GenerationStep(r) ==
  /\ r \in 1 .. Len(runs) /\ Generating(r)
  /\ runs'[r] # runs[r] /\ runs'[r].pc \in {"chat", "stream"}

\* the step made one store call: addMessage of an assistant message
CommitsResult(id, content) ==
  /\ Len(calls') = Len(calls) + 1
  /\ LET c == calls'[Len(calls')]
     IN /\ c.kind = "add" /\ c.id = id
        /\ c.local = <<Msg(id, "assistant", content, NoKey, now)>>

\* C26: the steps of a running generate change neither the cache nor the
\* table and make no store call; the message of a generation is in the
\* store only after generate resolved with a result, which the resuming
\* handleRun hands to addMessage, once.
C26_GenerationLeavesStoreAlone ==
  /\ [][\A r \in 1 .. MaxRuns :
          /\ (GenerationStep(r) \/ (GenerateStarts(r) /\ r > Len(runs))) =>
                /\ messages' = messages /\ table' = table
                /\ calls' = calls /\ requests' = requests
          /\ GenerateResolves(r) =>
                IF runs'[r].outcome = "failed"
                THEN calls' = calls /\ messages' = messages
                ELSE CommitsResult(runs[r].id, runs'[r].content)]_vars
  /\ [](\A r \in 1 .. Len(runs) :
          /\ Cardinality(AddCalls(runs[r].id)) <= 1
          /\ runs[r].pc \in {"add", "chat", "stream"} =>
                /\ AddCalls(runs[r].id) = {}
                /\ runs[r].id \notin Range(IdsOf(messages))
                /\ runs[r].id \notin TableIds(table))

\* a generation that returned its two deltas: its message was added by one
\* call, which completed, and is in the cache and in the table
C26_Witness ==
  \E r \in 1 .. Len(runs) :
    /\ runs[r].outcome = "completed" /\ runs[r].pc = "done"
    /\ runs[r].count = MaxFragments
    /\ Cardinality(AddCalls(runs[r].id)) = 1
    /\ \E m \in table :
         /\ m.id = runs[r].id /\ m.content = runs[r].sent
         /\ m \in Range(messages)

\* the positions of list at which the message has the id
Occurrences(list, id) == {i \in 1 .. Len(list) : list[i].id = id}

\* C27: the rendered list is the committed sequence with the generating
\* message put in the place of the committed message of the same id, or
\* appended when there is none; without a generating message it is the
\* committed sequence; the generating id occurs at most once and the other
\* messages keep their order.
C27_RenderedListOverlaysGenerating ==
  [][LET g == GeneratingMsg(state)
     IN /\ g = NoMessage => rendered' = snapshot
        /\ (g # NoMessage /\ Occurrences(snapshot, g.id) # {}) =>
              /\ Len(rendered') = Len(snapshot)
              /\ \A i \in 1 .. Len(snapshot) :
                   rendered'[i] = IF snapshot[i].id = g.id THEN g
                                  ELSE snapshot[i]
        /\ (g # NoMessage /\ Occurrences(snapshot, g.id) = {}) =>
              rendered' = Append(snapshot, g)
        /\ g # NoMessage => Cardinality(Occurrences(rendered', g.id)) = 1
        /\ SelectSeq(rendered', LAMBDA m : m.id # g.id)
             = SelectSeq(snapshot, LAMBDA m : m.id # g.id)]_vars

\* the list was rendered with the generating message in the place of the
\* second of three committed messages
C27_Witness ==
  /\ Len(snapshot) = 3 /\ Len(rendered) = 3
  /\ GeneratingMsg(state) # NoMessage
  /\ rendered[2] = GeneratingMsg(state)
  /\ snapshot[2].id = rendered[2].id
  /\ rendered[1] = snapshot[1] /\ rendered[3] = snapshot[3]

\* the ids of the placeholders of the generations that are running
GeneratingIds ==
  {state[k].generatingMessage.id : k \in {c \in Controllers : state[c].isRunning}}

\* C28: no call of reorderMessages is made with the id of the placeholder
\* of a running generation as its activeId or its overId.
C28_NoReorderOfGeneratingPlaceholder ==
  [][(Len(calls') = Len(calls) + 1 /\ calls'[Len(calls')].kind = "reorder") =>
       /\ calls'[Len(calls')].id \notin GeneratingIds
       /\ calls'[Len(calls')].over \notin GeneratingIds]_vars

\* the step changes neither the cache, nor the durable table, nor the store's
\* calls and durable requests
StoreUntouched ==
  /\ messages' = messages
  /\ table' = table
  /\ calls' = calls
  /\ requests' = requests

\* C29: validation failures are rejected before any state mutation: adding
\* a message whose content is empty or whitespace-only leaves the store
\* (cache and durable table) unchanged, and running with no API key neither
\* adds a message to the store nor starts a generation; each is surfaced
\* as one notification
C29_ValidationRejectsBeforeMutation ==
  [][Len(runs') = Len(runs) + 1 =>
       LET rec == runs'[Len(runs')] IN
         \/ rec.kind = "add" /\ Trim(newMessage) = ""
         \/ rec.kind = "run" /\ ~settings
         \/ rec.kind = "run" /\ uiMode # "expert" /\ Trim(newMessage) = ""
         \/ rec.kind = "key"
         => /\ StoreUntouched
            /\ state' = state /\ contentRef' = contentRef
            /\ newMessage' = newMessage
            /\ rec.pc = "rejected" /\ rec.toasts = 1
            /\ rec.id = UnknownId /\ rec.msg = UnknownId]_vars

\* C29 witness: with no API key, an add of whitespace-only content and a
\* run were both rejected, and the store still holds the system message
\* alone, with no call made and no generation started
C29_Witness ==
  /\ ~settings /\ newMessage = " "
  /\ \E r \in DOMAIN runs :
       runs[r].kind = "add" /\ runs[r].pc = "rejected"
  /\ \E r \in DOMAIN runs :
       runs[r].kind = "run" /\ runs[r].pc = "rejected"
  /\ messages = <<SystemMessage>> /\ table = {SystemMessage}
  /\ calls = <<>>
  /\ ~state["page"].isRunning

\* C30: no message committed to the store ever has empty content, in the
\* cache or in the durable table; empty content occurs only on the
\* generating placeholder, including when the generation is stopped before
\* its first fragment arrives and the caller commits its result
C30_NoCommittedEmptyContent ==
  /\ \A i \in 1 .. Len(messages) : messages[i].content # ""
  /\ \A m \in table : m.content # ""

\* the timestamps of the array agree with its order
StrictlyAscending(array) ==
  \A i \in 1 .. Len(array) - 1 : array[i].timestamp < array[i + 1].timestamp

\* C31: whenever no store operation is in flight, the timestamps of the
\* cached messages are strictly increasing in array order, after any
\* sequence of add, edit, delete and reorder, also for a message added right
\* after a reorder and for two messages added within one clock tick
C31_CachedTimestampsStrictlyIncrease ==
  AllDone => StrictlyAscending(messages)

\* a step in which reorderMessages call r issues its durable writes
IssuesPuts(r) ==
  /\ calls'[r].kind = "reorder" /\ calls'[r].req = "bulkPut"
  /\ r > Len(calls) \/ calls[r].req # "bulkPut"

\* the edit calls whose operation was in flight when call r was made and
\* has been since: they were running then and never waited for another
PendingOperations(r) ==
  {e \in calls'[r].pending :
     calls'[e].kind = "edit" /\ calls'[e].wait = NoOp}

\* C32: reorderMessages sets the cache to the new order and notifies, then
\* waits for every edit operation pending at that point, then issues the
\* durable writes with reassigned timestamps, then sets the cache to the
\* re-timestamped messages and notifies a second time; no durable write of
\* the reorder is issued before the first notification or before those
\* pending edits have finished
C32_ReorderStepsInOrder ==
  [][\A r \in 1 .. Len(calls') :
       /\ Called(r, "reorder") /\ ~calls'[r].dropped
            => /\ calls'[r].notes = 1
               /\ IdsOf(messages') = IdsOf(calls'[r].local)
               /\ snapshot' = messages'
               /\ table' = table
       /\ IssuesPuts(r)
            => /\ calls'[r].notes = 1
               /\ \A e \in PendingOperations(r) : calls'[e].pc = "done"
               /\ r > Len(calls) =>
                    \A e \in 1 .. Len(calls) : ~InFlight(e)
               /\ \A i \in 1 .. Len(calls'[r].local) :
                    calls'[r].local[i].timestamp = now + (i - 1)
               /\ table' = table
       /\ r <= Len(calls) /\ ReorderCompletes(r)
            => /\ calls'[r].notes = 2
               /\ messages' = calls[r].local
               /\ snapshot' = messages'
               /\ Range(calls[r].local) \subseteq table']_vars

\* no durable write has failed
NoFailure == \A c \in 1 .. Len(calls) : ~calls[c].error

\* C33: whenever no store operation is in flight and no durable write has
\* failed, the cache and the durable table hold the same ids with identical
\* records, and the cache's array order is the table's order by ascending
\* timestamp, after every interleaving of init, addMessage, editMessage,
\* deleteMessage, reorderMessages, deleteMessagesFrom and clear
C33_CacheAgreesWithTable ==
  (AllDone /\ NoFailure) =>
    /\ Range(messages) = table
    /\ Cardinality(Range(IdsOf(messages))) = Len(messages)
    /\ IdsOf(messages) = IdsOf(OrderByTimestamp(table))

\* the id is in neither the cache nor the durable table
Absent(id) == Cached(id) = {} /\ Stored(id) = {}

\* the ids that call c, a removal that has resolved, removed: the id of
\* deleteMessage, the ids deleteMessagesFrom bulk-deleted, and for clear the
\* ids of the messages that existed before any call (ids are never reused)
RemovedBy(c) ==
  IF calls[c].pc # "done" \/ calls[c].error THEN {}
  ELSE IF calls[c].kind = "delete" THEN {calls[c].id}
  ELSE IF calls[c].kind = "deleteFrom" THEN Range(calls[c].local)
  ELSE IF calls[c].kind = "clear" THEN TableIds(InitialTable)
  ELSE {}

\* C34: a message removed by deleteMessage, deleteMessagesFrom or clear
\* never reappears: once the removal has resolved, its id is absent from the
\* durable table and from the cache in every later state, also when an
\* editMessage for that id was submitted around the removal
C34_RemovedNeverReappears ==
  \A c \in 1 .. Len(calls) : \A id \in RemovedBy(c) : Absent(id)

\* a call that removes messages has been made
Removes(c) == calls[c].kind \in {"delete", "deleteFrom", "clear"}

\* C35: an editMessage(id, update) submitted for a message that subscribers
\* have been shown through addMessage's optimistic notification is applied
\* to the cache and to the durable table and not silently discarded, also
\* when the durable write of addMessage had not completed when the edit was
\* submitted (no write fails and no call removes a message)
C35_EditOfOptimisticMessageApplied ==
  \A a, e \in 1 .. Len(calls) :
    (/\ a < e
     /\ calls[a].kind = "add" /\ calls[e].kind = "edit"
     /\ calls[e].id = calls[a].id
     /\ a \in calls[e].pending
     /\ EditsOf(calls[e].id) = {e}
     /\ calls[e].pc = "done"
     /\ NoFailure
     /\ \A c \in 1 .. Len(calls) : ~Removes(c))
    => /\ Cached(calls[e].id) # {} /\ Stored(calls[e].id) # {}
       /\ \A m \in Cached(calls[e].id) \cup Stored(calls[e].id) :
            m.content = calls[e].update.content

\* call c was made while reorder r was waiting, and both have resolved
\* without a failure
DuringReorder(c, r) ==
  /\ calls[r].kind = "reorder" /\ ~calls[r].dropped
  /\ r \in calls[c].pending
  /\ calls[r].pc = "done" /\ calls[c].pc = "done"
  /\ ~calls[r].error /\ ~calls[c].error

\* C36: a reorder neither adds nor removes messages: a message added,
\* edited or deleted by another operation while the reorder is waiting on
\* pending edits or on its bulk persist is still present with its new
\* content (respectively still absent) in the cache and in the durable
\* table after the reorder has completed
C36_ReorderNeitherAddsNorRemoves ==
  \A c, r \in 1 .. Len(calls) :
    DuringReorder(c, r) =>
      /\ (calls[c].kind = "add" /\ \A k \in 1 .. Len(calls) : ~Removes(k))
            => Cached(calls[c].id) = {calls[c].local[1]}
                 /\ Stored(calls[c].id) # {}
      /\ (/\ calls[c].kind = "edit"
          /\ calls[c].id \in Range(IdsOf(calls[r].before))
          /\ EditsOf(calls[c].id) = {c}
          /\ \A k \in 1 .. Len(calls) : ~Removes(k))
            => \A m \in Cached(calls[c].id) \cup Stored(calls[c].id) :
                 Merge(m, calls[c].update) = m
      /\ calls[c].kind = "delete" => Absent(calls[c].id)

\* C37: reorderMessages(activeId, overId) in which activeId or overId is
\* not the id of a cached message (for example the id of the uncommitted
\* generating placeholder) leaves the array order of the cached messages
\* unchanged
C37_ReorderOfUncachedIdKeepsOrder ==
  [][\A r \in 1 .. Len(calls') :
       (/\ Called(r, "reorder") /\ ~calls'[r].dropped
        /\ \/ FindIndex(messages, calls'[r].id) = -1
           \/ FindIndex(messages, calls'[r].over) = -1)
       => IdsOf(messages') = IdsOf(messages)]_vars

\* C38: editMessage never changes a message's id or its timestamp: after
\* an edit with any update object a view can produce (also one built from a
\* message snapshot taken before a reorder reassigned the timestamps), the
\* stored record keeps the id it was addressed by and the timestamp most
\* recently assigned by add or reorder, and so does the cached message
C38_EditKeepsIdAndTimestamp ==
  [][\A c \in 1 .. Len(calls) :
       PutCompletes(c) =>
         /\ Len(messages') = Len(messages)
         /\ \A i \in 1 .. Len(messages) :
              /\ messages'[i].id = messages[i].id
              /\ messages'[i].timestamp = messages[i].timestamp
         /\ \A m \in TableGet(table', calls[c].id) :
              \A old \in TableGet(table, calls[c].id) :
                m.timestamp = old.timestamp
         /\ TableIds(table') = TableIds(table)]_vars

\* every editMessage call made so far has resolved
EditsResolved ==
  \A c \in 1 .. Len(calls) : calls[c].kind = "edit" => calls[c].pc = "done"

\* C39: when every durable-storage call eventually returns, every store
\* operation eventually resolves under any interleaving (no circular wait
\* between the per-id edit queue and the operations that await pending
\* edits), the single-flight reorder flag is eventually false again after
\* every accepted reorder, and the pending-edit map holds no entry once all
\* edits have resolved
C39_EveryOperationResolves ==
  /\ \A c \in 1 .. MaxCalls + 1 :
       (c <= Len(calls)) ~> (c <= Len(calls) /\ calls[c].pc = "done")
  /\ isSavingReorder ~> ~isSavingReorder
  /\ [](EditsResolved => editOperations = <<>>)

\* C39 witness: a drag that was accepted and had to wait for an edit, an edit
\* that had to wait for another, and a clear() after them have all
\* resolved; the flag is false and the map is empty
C39_Witness ==
  /\ AllDone /\ ~isSavingReorder /\ editOperations = <<>>
  /\ \E r, e, c \in 1 .. Len(calls) :
       /\ calls[r].kind = "reorder" /\ ~calls[r].dropped
       /\ calls[r].wait # NoOp
       /\ calls[e].kind = "edit" /\ calls[e].wait # NoOp
       /\ calls[c].kind = "clear" /\ calls[c].wait # NoOp

====
